---- MODULE Spec2Model ----
(***************************************************************************)
(* Model of the referral tracker bot (src/nrrp_referral_tracker.py).       *)
(*                                                                         *)
(* The bot runs on one cooperative event loop: a handler runs until it     *)
(* reaches an await that really suspends (a platform HTTP call or          *)
(* asyncio.sleep); `await validate_referrals(guild)` does not suspend,     *)
(* the coroutine holds no await of its own.  A task whose pc is in         *)
(* HeldPcs is in the middle of such a run: nothing else may step.          *)
(* Tasks start in the order of their creation; how long a created task     *)
(* waits for its first step, and a suspended one for its resumption, is    *)
(* left open.                                                              *)
(*                                                                         *)
(* The store is one SQLite file; every handler opens its own connection.   *)
(* Python's sqlite3 opens a transaction implicitly before the first        *)
(* INSERT/UPDATE of a connection, and SQLite lets one connection write at  *)
(* a time: a write attempted while another connection's transaction is     *)
(* open raises sqlite3.OperationalError ("database is locked").  Reads of  *)
(* other connections see the committed tables only.                        *)
(*                                                                         *)
(* Columns invited_name and has_resident_role of referrals are left out:   *)
(* no statement of the program reads them back into a decision.  Ids are   *)
(* integers here; the program stores them as decimal text and parses them  *)
(* back with int().                                                        *)
(***************************************************************************)
EXTENDS Integers, Sequences, FiniteSets, TLC

\* ------------------------------------------------------------- bounds
NMembers == 2
NCodes == 2
MaxUses == 2
MaxTasks == 2
MaxEvents == 3
MaxNameVer == 1
\* Rows of the referral tables the leaderboard query is tried on alone.
MaxRows == 3
\* Inviters in the tables that overfill the leaderboard.
MaxInviters == 12
\* Platform events followed when one member comes and goes.
MaxChurn == 6

Members == 1..NMembers
Codes == 1..NCodes
TaskIds == 1..MaxTasks

\* The member who created invite code c.
InviteOwner(c) == ((c - 1) % NMembers) + 1

VARIABLES
    roster,           \* guild.members: ids of the members present
    resident,         \* members holding the role named 'Resident'
    roleExists,       \* a role named 'Resident' exists in guild.roles
    names,            \* member id -> current display name (a version number)
    invites,          \* the platform's invite list: set of [code, uses]
    logsChannel,      \* bot.get_channel(LOGS_CHANNEL_ID) is not None
    invite_cache,     \* invite_cache[guild.id]
    referrals,        \* committed rows of table referrals, in rowid order
    member_history,   \* committed rows of table member_history (a bag)
    txn,              \* the open write transaction, or NoTxn
    tasks,            \* handler tasks of the event loop
    loops,            \* the auto_update_loop tasks created and not ended by an exception
    probe,            \* inputs and result of one attribution taken alone
    budget,           \* how many platform events a run is followed for
    boardChannel,     \* bot.get_channel(LEADERBOARD_CHANNEL_ID) is not None
    shown,            \* the rows the last leaderboard query returned
    last_leaderboard_message,  \* the tracked message id, 0 for None
    channel_messages, \* ids of the bot's leaderboard messages that are live
    events,           \* number of platform events so far (logical clock)
    audit_log,        \* rows of table audit_log, in rowid order
    pins,             \* embed titles of the bot's pinned messages in the
                      \* leaderboard channel, oldest first
    now,              \* the clock, in seconds
    cooldowns,        \* (command, user) -> the cooldown bucket
    rejection,        \* the last embed on_command_error sent, or NoRejection
    runs,             \* (command, user) -> the times at which the body ran
    displayed,        \* the ranking in the embed of the tracked message
    view,             \* the PaginationView of the last myreferrals answer
    invite_list       \* the reaction paginator of the last invitehistory answer

vars == <<roster, resident, roleExists, names, invites, logsChannel,
          invite_cache, referrals, member_history, txn, tasks, loops,
          probe, budget, boardChannel, shown, last_leaderboard_message,
          channel_messages, events, audit_log, pins, now, cooldowns,
          rejection, runs, displayed, view, invite_list>>

gateVars == <<now, cooldowns, rejection, runs>>

pageVars == <<view, invite_list>>

cmdVars == <<audit_log, pins, gateVars, pageVars>>

envVars == <<roster, resident, roleExists, names, invites, logsChannel, probe, budget,
             boardChannel>>
boardVars == <<last_leaderboard_message, channel_messages, shown, displayed>>
dbVars == <<referrals, member_history, txn>>

\* ------------------------------------------------------------- invites
NoInvite == [code |-> 0, uses |-> 0]

\* next((x for x in cache if x.code == code), None)
CachedInvite(cache, code) ==
    IF \E x \in cache : x.code = code
    THEN CHOOSE x \in cache : x.code = code
    ELSE NoInvite

RECURSIVE AttributionFrom(_, _, _)
AttributionFrom(cache, listing, i) ==
    IF i > Len(listing) THEN NoInvite
    ELSE LET invite == listing[i]
             cached_invite == CachedInvite(cache, invite.code)
         IN IF cached_invite = NoInvite \/ invite.uses > cached_invite.uses
            THEN invite
            ELSE AttributionFrom(cache, listing, i + 1)

\* The loop with >= in place of >.
RECURSIVE AttributionGeFrom(_, _, _)
AttributionGeFrom(cache, listing, i) ==
    IF i > Len(listing) THEN NoInvite
    ELSE LET invite == listing[i]
             cached_invite == CachedInvite(cache, invite.code)
         IN IF cached_invite = NoInvite \/ invite.uses >= cached_invite.uses
            THEN invite
            ELSE AttributionGeFrom(cache, listing, i + 1)

AttributionGe(cache, listing) == AttributionGeFrom(cache, listing, 1)

\* The loop without its break: the last match wins.
RECURSIVE AttributionNoBreakFrom(_, _, _, _)
AttributionNoBreakFrom(cache, listing, i, found) ==
    IF i > Len(listing) THEN found
    ELSE LET invite == listing[i]
             cached_invite == CachedInvite(cache, invite.code)
         IN IF cached_invite = NoInvite \/ invite.uses > cached_invite.uses
            THEN AttributionNoBreakFrom(cache, listing, i + 1, invite)
            ELSE AttributionNoBreakFrom(cache, listing, i + 1, found)

AttributionNoBreak(cache, listing) == AttributionNoBreakFrom(cache, listing, 1, NoInvite)

\* The for loop of on_member_join over invites_after: the first invite, in
\* listing order, that is not cached or whose use count rose.
Attribution(cache, listing) == AttributionFrom(cache, listing, 1)

\* All orders in which the platform may list a set of invites.
Listings(S) ==
    {l \in [1..Cardinality(S) -> S] : \A i, j \in 1..Cardinality(S) : l[i] = l[j] => i = j}

\* Sets of invites with pairwise different codes.
InviteSets ==
    {S \in SUBSET [code : Codes, uses : 0..MaxUses] :
        \A x, y \in S : x.code = y.code => x = y}

NoProbe == [cache |-> {}, listing |-> <<>>, out |-> NoInvite, done |-> FALSE]

\* --------------------------------------------------------------- store
HistActions == {"join", "leave", "got_resident", "CURRENT"}
HistKeys == Members \X HistActions \X BOOLEAN
EmptyHistory == [e \in HistKeys |-> 0]

\* An insert that replaces what the table held.
HistAddReplace(h, m, action, had) == [EmptyHistory EXCEPT ![<<m, action, had>>] = 1]

\* INSERT INTO member_history (member_id, action, had_resident)
HistAdd(h, m, action, had) == [h EXCEPT ![<<m, action, had>>] = @ + 1]

\* SELECT COUNT(*) FROM member_history WHERE member_id = ? AND had_resident = TRUE
HadResidentCount(h, m) ==
    h[<<m, "join", TRUE>>] + h[<<m, "leave", TRUE>>]
    + h[<<m, "got_resident", TRUE>>] + h[<<m, "CURRENT", TRUE>>]

\* SELECT COUNT(*) ... WHERE member_id = ? AND had_resident = TRUE AND action = 'leave'
WasResident(h, m) == h[<<m, "leave", TRUE>>] > 0

\* SELECT COUNT(*) FROM referrals WHERE invited_id = ?  (> 0)
HasPreviousRecord(ref, m) == \E i \in 1..Len(ref) : ref[i].invited_id = m

NewRow(invite, name, m, at, was_resident) ==
    [inviter_id |-> InviteOwner(invite.code), inviter_name |-> name,
     invited_id |-> m, invite_code |-> invite.code, joined_at |-> at,
     is_validated |-> FALSE, is_member_active |-> TRUE,
     was_previous_resident |-> was_resident]

\* The reactivating UPDATE also setting joined_at to the time of the re-join.
ReactivateRestamp(ref, m, was_resident) ==
    [i \in 1..Len(ref) |->
        IF ref[i].invited_id = m
        THEN [ref[i] EXCEPT !.is_member_active = TRUE, !.is_validated = FALSE,
                            !.was_previous_resident = was_resident,
                            !.joined_at = events]
        ELSE ref[i]]

\* on_member_join: UPDATE referrals SET is_member_active = TRUE,
\* is_validated = FALSE, was_previous_resident = ? WHERE invited_id = ?
Reactivate(ref, m, was_resident) ==
    [i \in 1..Len(ref) |->
        IF ref[i].invited_id = m
        THEN [ref[i] EXCEPT !.is_member_active = TRUE, !.is_validated = FALSE,
                            !.was_previous_resident = was_resident]
        ELSE ref[i]]

\* The UPDATE of on_member_remove with WHERE invited_id = ? OR inviter_id = ?
DeactivateBoth(ref, m, had_resident) ==
    [i \in 1..Len(ref) |->
        IF ref[i].invited_id = m \/ ref[i].inviter_id = m
        THEN [ref[i] EXCEPT !.is_validated = FALSE, !.is_member_active = FALSE,
                            !.was_previous_resident = had_resident]
        ELSE ref[i]]

\* on_member_remove: UPDATE referrals SET is_validated = FALSE,
\* is_member_active = FALSE, was_previous_resident = ? WHERE invited_id = ?
Deactivate(ref, m, had_resident) ==
    [i \in 1..Len(ref) |->
        IF ref[i].invited_id = m
        THEN [ref[i] EXCEPT !.is_validated = FALSE, !.is_member_active = FALSE,
                            !.was_previous_resident = had_resident]
        ELSE ref[i]]

\* ---------------------------------------------------------- validation
\* inviter = guild.get_member(id); inviter and resident_role in inviter.roles
HoldsRole(m) == m \in roster /\ m \in resident

\* The pass without its reset.
ResetValidationsNone(ref) == ref

\* A reset that keeps the old verdict as was_previous_resident.
ResetValidationsKeepPrev(ref) ==
    [i \in 1..Len(ref) |->
        [ref[i] EXCEPT !.is_validated = FALSE,
                       !.was_previous_resident = ref[i].is_validated]]

\* UPDATE referrals SET is_validated = FALSE, has_resident_role = FALSE,
\* was_previous_resident = FALSE
ResetValidations(ref) ==
    [i \in 1..Len(ref) |->
        [ref[i] EXCEPT !.is_validated = FALSE, !.was_previous_resident = FALSE]]

\* SELECT inviter_id, invited_id FROM referrals WHERE is_member_active = TRUE
ActiveReferrals(ref) ==
    LET act == SelectSeq(ref, LAMBDA r : r.is_member_active)
    IN [k \in 1..Len(act) |-> <<act[k].inviter_id, act[k].invited_id>>]

\* UPDATE referrals SET is_validated = TRUE, has_resident_role = TRUE,
\* was_previous_resident = TRUE WHERE inviter_id = ? AND invited_id = ?
MarkValidated(ref, inviter, invited) ==
    [i \in 1..Len(ref) |->
        IF ref[i].inviter_id = inviter /\ ref[i].invited_id = invited
        THEN [ref[i] EXCEPT !.is_validated = TRUE, !.was_previous_resident = TRUE]
        ELSE ref[i]]

\* The history INSERT of the pass without the COUNT(*) check before it.
RecordResidentNoCheck(h, m) == HistAdd(h, m, "got_resident", TRUE)

\* "Record in history for both inviter and invited if not already there"
RecordResident(h, m) ==
    IF HadResidentCount(h, m) = 0 THEN HistAdd(h, m, "got_resident", TRUE) ELSE h

RECURSIVE ValidateLoop(_, _, _)
ValidateLoop(db, fetched, k) ==
    IF k > Len(fetched) THEN db
    ELSE LET inviter == fetched[k][1]
             invited == fetched[k][2]
         IN IF HoldsRole(inviter) /\ HoldsRole(invited)
            THEN ValidateLoop(
                    [referrals |-> MarkValidated(db.referrals, inviter, invited),
                     member_history |->
                        RecordResident(RecordResident(db.member_history, inviter), invited)],
                    fetched, k + 1)
            ELSE ValidateLoop(db, fetched, k + 1)

\* The body of validate_referrals once the role has been found, on the
\* tables db = [referrals, member_history].
ValidatePass(db) ==
    LET reset == ResetValidations(db.referrals)
    IN ValidateLoop([referrals |-> reset, member_history |-> db.member_history],
                    ActiveReferrals(reset), 1)

\* --------------------------------------------- validate_referrals_command
\* UPDATE referrals SET is_validated = FALSE, has_resident_role = FALSE
ResetValidatedOnly(ref) == [i \in 1..Len(ref) |-> [ref[i] EXCEPT !.is_validated = FALSE]]

\* UPDATE referrals SET is_validated = TRUE, has_resident_role = TRUE
\* WHERE inviter_id = ? AND invited_id = ?
MarkValidatedOnly(ref, inviter, invited) ==
    [i \in 1..Len(ref) |->
        IF ref[i].inviter_id = inviter /\ ref[i].invited_id = invited
        THEN [ref[i] EXCEPT !.is_validated = TRUE]
        ELSE ref[i]]

RECURSIVE CommandLoop(_, _, _)
CommandLoop(ref, fetched, k) ==
    IF k > Len(fetched) THEN ref
    ELSE IF HoldsRole(fetched[k][1]) /\ HoldsRole(fetched[k][2])
    THEN CommandLoop(MarkValidatedOnly(ref, fetched[k][1], fetched[k][2]), fetched, k + 1)
    ELSE CommandLoop(ref, fetched, k + 1)

\* The pass of the `validate` command over table ref.  It awaits an edit of
\* its status message after every 50th row; the tables here stay below 50
\* rows, so the pass runs without suspending.
CommandPass(ref) ==
    LET reset == ResetValidatedOnly(ref)
    IN CommandLoop(reset, ActiveReferrals(reset), 1)

\* ----------------------------------------------- populate_member_history
RECURSIVE AddCurrent(_, _)
AddCurrent(h, S) ==
    IF S = {} THEN h
    ELSE LET m == CHOOSE x \in S : TRUE
         IN AddCurrent(HistAdd(h, m, "CURRENT", TRUE), S \ {m})

\* populate_member_history(guild) on history h: nothing when h has entries or
\* the role is missing, else one CURRENT entry per member holding the role.
populate_member_history(h) ==
    IF h # EmptyHistory \/ ~roleExists THEN h
    ELSE AddCurrent(h, {m \in roster : m \in resident})

\* --------------------------------------------------------- leaderboard
\* Stand-ins for the two inviter ids the leaderboard query leaves out
\* ('845819834696597504' and '851302798247067678').
Denylisted == {90, 91}

\* LIMIT 10
LeaderboardLimit == 10

\* WHERE inviter_id != ... AND inviter_id != ...
QueryRows(ref) == {i \in 1..Len(ref) : ref[i].inviter_id \notin Denylisted}

\* GROUP BY inviter_id, inviter_name: the groups of the rows that pass WHERE.
GroupKeys(ref) == {<<ref[i].inviter_id, ref[i].inviter_name>> : i \in QueryRows(ref)}

\* One result row: the three SUM(CASE ...) columns over the rows of group g.
Entry(ref, g) ==
    LET mine == {i \in QueryRows(ref) :
                    ref[i].inviter_id = g[1] /\ ref[i].inviter_name = g[2]}
    IN [inviter_id |-> g[1], inviter_name |-> g[2],
        validated_count |->
            Cardinality({i \in mine : ref[i].is_validated /\ ref[i].is_member_active}),
        unvalidated_count |->
            Cardinality({i \in mine : ~ref[i].is_validated /\ ref[i].is_member_active}),
        total_count |-> Cardinality({i \in mine : ref[i].is_member_active})]

\* HAVING total_count > 0
Having(ref) == {Entry(ref, g) : g \in GroupKeys(ref)}

HavingTotal(ref) == {e \in Having(ref) : e.total_count > 0}

\* An ordering by total_count first.
OutranksByTotal(a, b) ==
    \/ a.total_count > b.total_count
    \/ a.total_count = b.total_count /\ a.validated_count > b.validated_count

\* ORDER BY validated_count DESC, total_count DESC: a sorts before b.
Outranks(a, b) ==
    \/ a.validated_count > b.validated_count
    \/ a.validated_count = b.validated_count /\ a.total_count > b.total_count

\* The order of the groups before the sort: by inviter_id, then inviter_name.
KeyBefore(a, b) ==
    \/ a.inviter_id < b.inviter_id
    \/ a.inviter_id = b.inviter_id /\ a.inviter_name < b.inviter_name

\* Entry e put into the sorted sequence s, behind every entry it does not
\* outrank.
RECURSIVE InsertEntry(_, _)
InsertEntry(e, s) ==
    IF s = <<>> THEN <<e>>
    ELSE IF Outranks(e, Head(s)) THEN <<e>> \o s
    ELSE <<Head(s)>> \o InsertEntry(e, Tail(s))

\* The entries of E sorted; entries that tie keep their group order.
RECURSIVE Ordered(_)
Ordered(E) ==
    IF E = {} THEN <<>>
    ELSE LET last == CHOOSE e \in E : \A x \in E \ {e} : KeyBefore(x, e)
         IN InsertEntry(last, Ordered(E \ {last}))

FirstN(s, n) == SubSeq(s, 1, IF Len(s) < n THEN Len(s) ELSE n)

\* The SELECT of update_leaderboard and of show_leaderboard on table ref.
Leaderboard(ref) == FirstN(Ordered(HavingTotal(ref)), LeaderboardLimit)

\* ------------------------------------------------------- transactions
NoTxn == [owner |-> 0, referrals |-> <<>>, member_history |-> EmptyHistory]

\* Another connection holds the write lock: a write by task t raises
\* sqlite3.OperationalError.
Locked(t) == txn.owner # 0 /\ txn.owner # t

\* The tables as task t's connection sees them.
View(t) ==
    IF txn.owner = t
    THEN [referrals |-> txn.referrals, member_history |-> txn.member_history]
    ELSE [referrals |-> referrals, member_history |-> member_history]

\* --------------------------------------------------------------- tasks
Idle ==
    [kind |-> "none", pc |-> "idle", seq |-> 0, member |-> 0, was_resident |-> FALSE,
     has_previous_record |-> FALSE, had_resident |-> FALSE,
     invites_after |-> {}, invite_used |-> NoInvite, ok |-> FALSE,
     target |-> 0, board |-> <<>>]

\* Places of a handler between two suspending awaits.
HeldPcs == {"stored", "validate", "validated"}

Held == \E t \in TaskIds : tasks[t].pc \in HeldPcs

FreeSlot(t) == tasks[t] = Idle /\ \A u \in TaskIds : u < t => tasks[u] # Idle

\* The gateway dispatches an event: the handler becomes a task of the loop.
Spawn(t, kind, m, had) ==
    tasks' = [tasks EXCEPT ![t] = [Idle EXCEPT !.kind = kind, !.pc = "start",
                                               !.seq = events + 1,
                                               !.member = m, !.had_resident = had]]

\* The loop starts new tasks in the order of their creation.
FirstToStart(t) ==
    /\ tasks[t].pc = "start"
    /\ \A u \in TaskIds : tasks[u].pc = "start" => tasks[u].seq >= tasks[t].seq

\* The task ends: it returned, or an exception left the handler.
Finish(t) == tasks' = [tasks EXCEPT ![t] = Idle]

Goto(t, pc) == tasks' = [tasks EXCEPT ![t].pc = pc]

\* An exception raised inside auto_update_loop ends that loop for good.
LoopsEnded(t) == IF tasks[t].kind = "periodic" THEN 1 ELSE 0

\* An exception leaves the task.
Die(t) ==
    /\ Finish(t)
    /\ loops' = loops - LoopsEnded(t)

\* ------------------------------------------------------------ platform
\* A member joins the guild through invite code c (0: a join that raises no
\* use count, such as a vanity link); the gateway dispatches on_member_join.
MemberJoin(m, c) ==
    /\ UNCHANGED <<boardVars, cmdVars>>
    /\ ~Held
    /\ events < budget
    /\ m \notin roster
    /\ \/ c = 0 /\ invites' = invites
       \/ \E inv \in invites :
            /\ inv.code = c
            /\ inv.uses < MaxUses
            /\ invites' = (invites \ {inv}) \cup {[inv EXCEPT !.uses = @ + 1]}
    /\ roster' = roster \cup {m}
    /\ \E t \in TaskIds : FreeSlot(t) /\ Spawn(t, "join", m, FALSE)
    /\ events' = events + 1
    /\ UNCHANGED <<resident, roleExists, names, logsChannel, probe, budget, boardChannel, invite_cache, loops, dbVars>>

\* A member leaves; the gateway dispatches on_member_remove with the member
\* object as it was, roles included.
MemberLeave(m) ==
    /\ UNCHANGED <<boardVars, cmdVars>>
    /\ ~Held
    /\ events < budget
    /\ m \in roster
    /\ roster' = roster \ {m}
    /\ resident' = resident \ {m}
    /\ \E t \in TaskIds : FreeSlot(t) /\ Spawn(t, "leave", m, m \in resident)
    /\ events' = events + 1
    /\ UNCHANGED <<roleExists, names, invites, logsChannel, probe, budget, boardChannel, invite_cache, loops, dbVars>>

GrantRole(m) ==
    /\ UNCHANGED <<boardVars, cmdVars>>
    /\ ~Held
    /\ events < budget
    /\ roleExists
    /\ m \in roster \ resident
    /\ resident' = resident \cup {m}
    /\ events' = events + 1
    /\ UNCHANGED <<roster, roleExists, names, invites, logsChannel, probe, budget, boardChannel, invite_cache, loops,
                   dbVars, tasks>>

RevokeRole(m) ==
    /\ UNCHANGED <<boardVars, cmdVars>>
    /\ ~Held
    /\ events < budget
    /\ m \in resident
    /\ resident' = resident \ {m}
    /\ events' = events + 1
    /\ UNCHANGED <<roster, roleExists, names, invites, logsChannel, probe, budget, boardChannel, invite_cache, loops,
                   dbVars, tasks>>

\* The role named 'Resident' is deleted or renamed, or one is created.
RoleRemoved ==
    /\ UNCHANGED <<boardVars, cmdVars>>
    /\ ~Held
    /\ events < budget
    /\ roleExists
    /\ roleExists' = FALSE
    /\ resident' = {}
    /\ events' = events + 1
    /\ UNCHANGED <<roster, names, invites, logsChannel, probe, budget, boardChannel, invite_cache, loops, dbVars, tasks>>

RoleCreated ==
    /\ UNCHANGED <<boardVars, cmdVars>>
    /\ ~Held
    /\ events < budget
    /\ ~roleExists
    /\ roleExists' = TRUE
    /\ events' = events + 1
    /\ UNCHANGED <<roster, resident, names, invites, logsChannel, probe, budget, boardChannel, invite_cache, loops,
                   dbVars, tasks>>

\* Invite codes are never issued twice: nothing remembers code c.
FreshCode(c) ==
    /\ \A inv \in invite_cache : inv.code # c
    /\ \A t \in TaskIds :
        /\ \A inv \in tasks[t].invites_after : inv.code # c
        /\ tasks[t].invite_used.code # c
    /\ \A i \in 1..Len(referrals) : referrals[i].invite_code # c
    /\ \A i \in 1..Len(txn.referrals) : txn.referrals[i].invite_code # c

\* A present member creates a new invite.
CreateInvite(c) ==
    /\ UNCHANGED <<boardVars, cmdVars>>
    /\ ~Held
    /\ events < budget
    /\ InviteOwner(c) \in roster
    /\ \A inv \in invites : inv.code # c
    /\ FreshCode(c)
    /\ invites' = invites \cup {[code |-> c, uses |-> 0]}
    /\ events' = events + 1
    /\ UNCHANGED <<roster, resident, roleExists, names, logsChannel, probe, budget, boardChannel, invite_cache, loops,
                   dbVars, tasks>>

\* An invite expires or is deleted; the bot has no handler for it, so the
\* cache keeps the invite until a join handler replaces the cache.
DeleteInvite(c) ==
    /\ UNCHANGED <<boardVars, cmdVars>>
    /\ ~Held
    /\ events < budget
    /\ \E inv \in invites : inv.code = c /\ invites' = invites \ {inv}
    /\ events' = events + 1
    /\ UNCHANGED <<roster, resident, roleExists, names, logsChannel, probe, budget, boardChannel, invite_cache, loops,
                   dbVars, tasks>>

\* A user changes their name.
Rename(m) ==
    /\ UNCHANGED <<boardVars, cmdVars>>
    /\ ~Held
    /\ events < budget
    /\ names[m] < MaxNameVer
    /\ names' = [names EXCEPT ![m] = @ + 1]
    /\ events' = events + 1
    /\ UNCHANGED <<roster, resident, roleExists, invites, logsChannel, probe, budget, boardChannel, invite_cache, loops,
                   dbVars, tasks>>

\* ---------------------------------------------------- auto_update_loop
\* The loop wakes from asyncio.sleep(86400) and calls validate_referrals.
Tick ==
    /\ UNCHANGED <<boardVars, cmdVars>>
    /\ ~Held
    /\ events < budget
    /\ Cardinality({t \in TaskIds : tasks[t].kind = "periodic"}) < loops
    /\ \E t \in TaskIds :
        /\ FreeSlot(t)
        /\ tasks' = [tasks EXCEPT ![t] = [Idle EXCEPT !.kind = "periodic", !.pc = "validate"]]
    /\ events' = events + 1
    /\ UNCHANGED <<envVars, invite_cache, loops, dbVars>>

\* ------------------------------------------------------ on_member_join
\* Up to the first await: the two SELECTs and, for a member with a row, the
\* reactivating UPDATE, which opens this connection's transaction.  If the
\* UPDATE raises, the except clause rolls back and `if invites_after:` then
\* raises UnboundLocalError, which ends the handler.
JoinStart(t) ==
    /\ UNCHANGED <<boardVars, cmdVars>>
    /\ ~Held
    /\ tasks[t].kind = "join" /\ FirstToStart(t)
    /\ LET m == tasks[t].member
           was_resident == WasResident(member_history, m)
           has_previous_record == HasPreviousRecord(referrals, m)
       IN IF has_previous_record /\ Locked(t)
          THEN Finish(t) /\ UNCHANGED txn
          ELSE /\ tasks' = [tasks EXCEPT ![t].seq = 0,
                                         ![t].was_resident = was_resident,
                                         ![t].has_previous_record = has_previous_record,
                                         ![t].pc = "await_invites"]
               /\ txn' = IF has_previous_record
                         THEN [owner |-> t,
                               referrals |-> Reactivate(referrals, m, was_resident),
                               member_history |-> member_history]
                         ELSE txn
    /\ UNCHANGED <<envVars, invite_cache, loops, referrals, member_history, events>>

\* The platform answers member.guild.invites(): the list as it is now, or an
\* error.  On an error the except clause rolls back and `if invites_after:`
\* raises UnboundLocalError, which ends the handler.
JoinFetch(t) ==
    /\ UNCHANGED <<boardVars, cmdVars>>
    /\ ~Held
    /\ tasks[t].kind = "join" /\ tasks[t].pc = "await_invites"
    /\ \/ /\ tasks' = [tasks EXCEPT ![t].invites_after = invites,
                                    ![t].pc = "invites_ready"]
          /\ UNCHANGED txn
       \/ /\ txn' = IF txn.owner = t THEN NoTxn ELSE txn
          /\ Finish(t)
    /\ UNCHANGED <<envVars, invite_cache, loops, referrals, member_history, events>>

\* if invite_used and not has_previous_record:
ShouldInsertNoCheck(invite_used, has_previous_record) == invite_used # NoInvite

ShouldInsert(invite_used, has_previous_record) ==
    invite_used # NoInvite /\ ~has_previous_record

\* The handler resumes with invites_after: attribution, the INSERTs, and
\* either the await of the log channel's send or the commit.
JoinResolve(t) ==
    /\ UNCHANGED <<boardVars, cmdVars>>
    /\ ~Held
    /\ tasks[t].kind = "join" /\ tasks[t].pc = "invites_ready"
    /\ \E listing \in Listings(tasks[t].invites_after) :
            LET me == tasks[t]
                invite_used == Attribution(invite_cache, listing)
                v == View(t)
                ref2 == IF ShouldInsert(invite_used, me.has_previous_record)
                        THEN Append(v.referrals,
                                    NewRow(invite_used, names[InviteOwner(invite_used.code)],
                                           me.member, events, me.was_resident))
                        ELSE v.referrals
                hist2 == HistAdd(v.member_history, me.member, "join", me.was_resident)
                bound == [me EXCEPT !.invite_used = invite_used]
            IN IF Locked(t)
               THEN \* the first INSERT raises: rollback
                    /\ tasks' = [tasks EXCEPT ![t] = [bound EXCEPT !.pc = "stored", !.ok = FALSE]]
                    /\ UNCHANGED dbVars
               ELSE IF logsChannel
               THEN /\ txn' = [owner |-> t, referrals |-> ref2, member_history |-> hist2]
                    /\ tasks' = [tasks EXCEPT ![t] = [bound EXCEPT !.pc = "await_send"]]
                    /\ UNCHANGED <<referrals, member_history>>
               ELSE /\ referrals' = ref2
                    /\ member_history' = hist2
                    /\ txn' = NoTxn
                    /\ tasks' = [tasks EXCEPT ![t] = [bound EXCEPT !.pc = "stored", !.ok = TRUE]]
    /\ UNCHANGED <<envVars, invite_cache, loops, events>>

\* logs_channel.send returns (commit) or raises (rollback).
JoinSend(t) ==
    /\ UNCHANGED <<boardVars, cmdVars>>
    /\ ~Held
    /\ tasks[t].kind = "join" /\ tasks[t].pc = "await_send"
    /\ \E sent \in BOOLEAN :
        /\ referrals' = IF sent THEN txn.referrals ELSE referrals
        /\ member_history' = IF sent THEN txn.member_history ELSE member_history
        /\ tasks' = [tasks EXCEPT ![t].pc = "stored", ![t].ok = sent]
    /\ txn' = NoTxn
    /\ UNCHANGED <<envVars, invite_cache, loops, events>>

\* "Update invite cache": if invites_after: invite_cache[guild.id] = invites_after
JoinCache(t) ==
    /\ UNCHANGED <<boardVars, cmdVars>>
    /\ tasks[t].kind = "join" /\ tasks[t].pc = "stored"
    /\ invite_cache' = IF tasks[t].invites_after # {}
                       THEN tasks[t].invites_after ELSE invite_cache
    /\ Goto(t, "validate")
    /\ UNCHANGED <<envVars, loops, dbVars, events>>

\* ---------------------------------------------------- on_member_remove
\* The try block: INSERT into member_history, UPDATE referrals, commit.  No
\* await lies inside it.
LeaveStore(t) ==
    /\ UNCHANGED <<boardVars, cmdVars>>
    /\ ~Held
    /\ tasks[t].kind = "leave" /\ FirstToStart(t)
    /\ IF Locked(t)
       THEN \* the INSERT raises sqlite3.Error: rollback
            /\ tasks' = [tasks EXCEPT ![t].pc = "stored", ![t].seq = 0, ![t].ok = FALSE]
            /\ UNCHANGED <<referrals, member_history>>
       ELSE /\ member_history' = HistAdd(member_history, tasks[t].member, "leave",
                                         tasks[t].had_resident)
            /\ referrals' = Deactivate(referrals, tasks[t].member, tasks[t].had_resident)
            /\ tasks' = [tasks EXCEPT ![t].pc = "stored", ![t].seq = 0, ![t].ok = TRUE]
    /\ UNCHANGED <<envVars, invite_cache, loops, txn, events>>

\* After the try block: with a log channel the handler builds the embed
\* (`if inviter_info:` raises UnboundLocalError when the try block failed
\* before assigning it) and awaits the send; without one it goes on to the
\* validation pass.
LeaveLog(t) ==
    /\ UNCHANGED <<boardVars, cmdVars>>
    /\ tasks[t].kind = "leave" /\ tasks[t].pc = "stored"
    /\ IF logsChannel
       THEN IF tasks[t].ok THEN Goto(t, "await_send") ELSE Finish(t)
       ELSE Goto(t, "validate")
    /\ UNCHANGED <<envVars, invite_cache, loops, dbVars, events>>

\* logs_channel.send returns, or raises and ends the handler.
LeaveSend(t) ==
    /\ UNCHANGED <<boardVars, cmdVars>>
    /\ ~Held
    /\ tasks[t].kind = "leave" /\ tasks[t].pc = "await_send"
    /\ \/ Goto(t, "validate")
       \/ Finish(t)
    /\ UNCHANGED <<envVars, invite_cache, loops, dbVars, events>>

\* ------------------------------------------- validate_referrals_command
\* An administrator sends `validate` in an allowed channel.
ValidateCommand ==
    /\ UNCHANGED <<boardVars, cmdVars>>
    /\ ~Held
    /\ events < budget
    /\ \E t \in TaskIds : FreeSlot(t) /\ Spawn(t, "command", 0, FALSE)
    /\ events' = events + 1
    /\ UNCHANGED <<envVars, invite_cache, loops, dbVars>>

\* Up to the first await: without the role the command sends an error and
\* returns; with it the command awaits ctx.send("Starting validation ...").
CommandStart(t) ==
    /\ UNCHANGED <<boardVars, cmdVars>>
    /\ ~Held
    /\ tasks[t].kind = "command" /\ FirstToStart(t)
    /\ IF ~roleExists
       THEN Finish(t)
       ELSE tasks' = [tasks EXCEPT ![t].pc = "await_status", ![t].seq = 0]
    /\ UNCHANGED <<envVars, invite_cache, loops, dbVars, events>>

\* The status message is sent (or the send raises): the command runs its own
\* pass, commits, and awaits the deletion of the status message.  The first
\* UPDATE raises when another connection's transaction is open.
CommandValidate(t) ==
    /\ UNCHANGED <<boardVars, cmdVars>>
    /\ ~Held
    /\ tasks[t].kind = "command" /\ tasks[t].pc = "await_status"
    /\ \/ /\ ~Locked(t)
          /\ referrals' = CommandPass(referrals)
          /\ Goto(t, "await_report")
       \/ /\ Finish(t)
          /\ UNCHANGED referrals
    /\ UNCHANGED <<envVars, invite_cache, loops, member_history, txn, events>>

\* status_message.delete(), the report and the "Updating leaderboard"
\* message: the three awaits before asyncio.sleep(1); any of them may raise.
CommandReport(t) ==
    /\ UNCHANGED <<boardVars, cmdVars>>
    /\ ~Held
    /\ tasks[t].kind = "command" /\ tasks[t].pc = "await_report"
    /\ \/ Goto(t, "sleep")
       \/ Finish(t)
    /\ UNCHANGED <<envVars, invite_cache, loops, dbVars, events>>

\* -------------------------------------------------------- log_audit_event
\* The columns setup_database gives table audit_log.
AuditColumns == {"id", "event_type", "event_data", "timestamp"}

\* log_audit_event(event_type, event_data, severity) by task t: one INSERT
\* naming the columns event_type, event_data and severity, and a commit, on
\* a connection of its own.  sqlite3.Error (a column the table does not
\* have, a locked database) is caught and logged: then nothing is appended.
\* Of the payload the member or caller is kept.
log_audit_event(t, event_type, who, severity) ==
    IF {"event_type", "event_data", "severity"} \subseteq AuditColumns /\ ~Locked(t)
    THEN Append(audit_log, [event_type |-> event_type, event_data |-> who,
                            severity |-> severity])
    ELSE audit_log

\* The audit call that ends the handler of task t: the join handler logs
\* MEMBER_JOIN with the default severity, the leave handler MEMBER_LEAVE, the
\* validate command MANUAL_VALIDATION; auto_update_loop logs nothing.
EndAudit(t) ==
    CASE tasks[t].kind = "join" ->
            log_audit_event(t, "MEMBER_JOIN", tasks[t].member, "INFO")
      [] tasks[t].kind = "leave" ->
            log_audit_event(t, "MEMBER_LEAVE", tasks[t].member, "IMPORTANT")
      [] tasks[t].kind = "command" ->
            log_audit_event(t, "MANUAL_VALIDATION", 0, "ADMIN")
      [] OTHER -> audit_log

\* ------------------------------------------------- reset_member_history
\* An administrator sends `resethistory`: DROP TABLE, CREATE TABLE, commit,
\* then populate_member_history, all before the command's first await.  The
\* DROP raises when another connection's transaction is open.
ResetHistory ==
    /\ UNCHANGED <<boardVars, cmdVars>>
    /\ ~Held
    /\ events < budget
    /\ txn.owner = 0
    /\ member_history' = populate_member_history(EmptyHistory)
    /\ events' = events + 1
    /\ UNCHANGED <<envVars, invite_cache, loops, referrals, txn, tasks>>

\* -------------------------------------------------- validate_referrals
\* validate_referrals(guild) on the tables db: it returns at once when no
\* role is named 'Resident'.
validate_referrals(db) == IF ~roleExists THEN db ELSE ValidatePass(db)

\* await validate_referrals(guild).  The pass runs on a connection of its own
\* and commits; its first UPDATE raises when another connection's
\* transaction is open, and nothing in the callers catches that.
ValidateStep(t) ==
    /\ UNCHANGED <<boardVars, cmdVars>>
    /\ tasks[t].pc = "validate"
    /\ IF roleExists /\ Locked(t)
       THEN /\ Finish(t)
            /\ loops' = loops - LoopsEnded(t)
            /\ UNCHANGED <<referrals, member_history>>
       ELSE LET db == validate_referrals([referrals |-> referrals,
                                          member_history |-> member_history])
            IN /\ referrals' = db.referrals
               /\ member_history' = db.member_history
               /\ Goto(t, "validated")
               /\ UNCHANGED loops
    /\ UNCHANGED <<envVars, invite_cache, txn, events>>

\* await asyncio.sleep(1): the handler suspends.
Sleep(t) ==
    /\ UNCHANGED <<boardVars, cmdVars>>
    /\ tasks[t].pc = "validated"
    /\ Goto(t, "sleep")
    /\ UNCHANGED <<envVars, invite_cache, loops, dbVars, events>>

\* The id of the message channel.send creates: one that no live message, no
\* tracked handle and no pending deletion carries.
NewMessage ==
    LET used == channel_messages \cup {last_leaderboard_message}
                    \cup {tasks[t].target : t \in TaskIds}
    IN CHOOSE i \in 1..(Cardinality(used) + 1) :
            i \notin used /\ \A j \in 1..(i - 1) : j \in used

\* update_leaderboard without the deletion of the tracked message.
PublishNoDelete(t) ==
    /\ ~Held
    /\ tasks[t].pc = "sleep"
    /\ IF ~boardChannel
       THEN /\ Finish(t)
            /\ audit_log' = EndAudit(t)
            /\ UNCHANGED shown
       ELSE /\ tasks' = [tasks EXCEPT ![t].pc = "await_board_send",
                                      ![t].board = Leaderboard(referrals)]
            /\ shown' = Leaderboard(referrals)
            /\ UNCHANGED audit_log
    /\ UNCHANGED <<pins, gateVars, pageVars>>
    /\ UNCHANGED <<envVars, last_leaderboard_message, channel_messages, displayed, invite_cache,
                   loops, dbVars, events>>

\* asyncio.sleep(1) returns and update_leaderboard runs to its first await:
\* it returns at once without a leaderboard channel (log_audit_event then
\* ends the handler), awaits the deletion of the tracked message if there is
\* one, and otherwise reads the leaderboard and awaits channel.send (with
\* the placeholder text or the table: both branches send one message).
Publish(t) ==
    /\ ~Held
    /\ tasks[t].pc = "sleep"
    /\ IF ~boardChannel
       THEN /\ Finish(t)
            /\ audit_log' = EndAudit(t)
            /\ UNCHANGED shown
       ELSE IF last_leaderboard_message # 0
       THEN /\ tasks' = [tasks EXCEPT ![t].pc = "await_delete",
                                      ![t].target = last_leaderboard_message]
            /\ UNCHANGED <<shown, audit_log>>
       ELSE /\ tasks' = [tasks EXCEPT ![t].pc = "await_board_send",
                                      ![t].board = Leaderboard(referrals)]
            /\ shown' = Leaderboard(referrals)
            /\ UNCHANGED audit_log
    /\ UNCHANGED <<pins, gateVars, pageVars>>
    /\ UNCHANGED <<envVars, last_leaderboard_message, channel_messages, displayed, invite_cache,
                   loops, dbVars, events>>

\* last_leaderboard_message.delete() returns, raises discord.NotFound for a
\* message already deleted (passed over), or raises another error, which
\* nothing catches.  After it the leaderboard is read and channel.send awaited.
PublishDelete(t) ==
    /\ UNCHANGED cmdVars
    /\ ~Held
    /\ tasks[t].pc = "await_delete"
    /\ \/ /\ channel_messages' = channel_messages \ {tasks[t].target}
          /\ tasks' = [tasks EXCEPT ![t].pc = "await_board_send",
                                    ![t].board = Leaderboard(referrals)]
          /\ shown' = Leaderboard(referrals)
          /\ UNCHANGED loops
       \/ /\ tasks[t].target \in channel_messages
          /\ Die(t)
          /\ UNCHANGED <<channel_messages, shown>>
    /\ UNCHANGED <<envVars, last_leaderboard_message, displayed, invite_cache, dbVars,
                   events>>

\* channel.send returns the new message, which becomes the tracked one, and
\* log_audit_event ends the handler; or it raises.
PublishSend(t) ==
    /\ ~Held
    /\ tasks[t].pc = "await_board_send"
    /\ \/ /\ channel_messages' = channel_messages \cup {NewMessage}
          /\ last_leaderboard_message' = NewMessage
          /\ displayed' = tasks[t].board
          /\ Finish(t)
          /\ audit_log' = EndAudit(t)
          /\ UNCHANGED loops
       \/ /\ Die(t)
          /\ UNCHANGED <<last_leaderboard_message, channel_messages, displayed,
                         audit_log>>
    /\ UNCHANGED <<pins, gateVars, pageVars>>
    /\ UNCHANGED <<envVars, shown, invite_cache, dbVars, events>>

\* ------------------------------------------------------------- commands
\* Where a command message is sent: a DM with the bot, the commands channel,
\* the leaderboard channel, or another channel of the guild.
Places == {"dm", "commands", "leaderboard", "other"}

Commands == {"validate", "resethistory", "myreferrals", "leaderboard"}

\* The commands decorated with @cooldown(1, 900, BucketType.user).
CooldownCommands == {"myreferrals", "leaderboard"}

CooldownKeys == CooldownCommands \X Members

\* check_channel letting every channel through.
check_channel_any(place) == TRUE

\* check_channel(ctx): ctx.channel.id is COMMANDS_CHANNEL_ID or
\* LEADERBOARD_CHANNEL_ID.
check_channel(place) == place \in {"commands", "leaderboard"}

\* has_permissions(administrator=True): the caller's permissions in the
\* channel of the message; nobody is an administrator in a DM.
has_administrator(place, admin) == place # "dm" /\ admin

\* The checks the decorators attach to a command; a failed check raises
\* "PrivateMessageOnly" for dm_only and another CheckFailure otherwise.
\* The result "" stands for: every check passed.
CheckError(cmd, place, admin) ==
    CASE cmd = "validate" ->
            IF has_administrator(place, admin) /\ check_channel(place)
            THEN "" ELSE "CheckFailure"
      [] cmd = "resethistory" ->
            IF has_administrator(place, admin) THEN "" ELSE "CheckFailure"
      [] OTHER ->
            IF place = "dm" THEN "" ELSE "PrivateMessageOnly"

\* @cooldown(1, 900, BucketType.user): one token per 900 seconds, one bucket
\* per command and user.
CooldownRate == 1

CooldownPer == 900

NewBucket == [window |-> 0, tokens |-> CooldownRate]

Max(a, b) == IF a > b THEN a ELSE b

\* The cooldown's update_rate_limit(current) on bucket b, as the commands
\* framework runs it once the checks have passed: the tokens are refilled
\* when the window is over, the window starts at the use of the first
\* token, one token is taken, and without a token left the call is limited
\* for the rest of the window.
update_rate_limit(b, current) ==
    LET tokens == IF current > b.window + CooldownPer
                  THEN CooldownRate ELSE Max(b.tokens, 0)
        window == IF tokens = CooldownRate THEN current ELSE b.window
    IN [bucket |-> [window |-> window, tokens |-> tokens - 1],
        limited |-> tokens - 1 < 0,
        retry_after |-> CooldownPer - (current - window)]

NoRejection == [message |-> 0, cmd |-> "", user |-> 0, title |-> "",
                minutes |-> 0, seconds |-> 0]

\* on_command_error showing all of retry_after as the seconds.
on_command_error_raw_seconds(message, cmd, user, error, retry_after) ==
    [message |-> message, cmd |-> cmd, user |-> user,
     title |-> CASE error = "PrivateMessageOnly" -> "DM Only Command"
                 [] error = "CheckFailure" -> "Permission Error"
                 [] error = "CommandOnCooldown" -> "Command on Cooldown",
     minutes |-> IF error = "CommandOnCooldown" THEN retry_after \div 60 ELSE 0,
     seconds |-> IF error = "CommandOnCooldown" THEN retry_after ELSE 0]

\* on_command_error(ctx, error) for the message with id `message`: the embed
\* handed to ctx.send.  A cooldown error carries retry_after, shown as
\* minutes and seconds.
on_command_error(message, cmd, user, error, retry_after) ==
    CASE error = "PrivateMessageOnly" ->
            [message |-> message, cmd |-> cmd, user |-> user,
             title |-> "DM Only Command", minutes |-> 0, seconds |-> 0]
      [] error = "CheckFailure" ->
            [message |-> message, cmd |-> cmd, user |-> user,
             title |-> "Permission Error", minutes |-> 0, seconds |-> 0]
      [] error = "CommandOnCooldown" ->
            [message |-> message, cmd |-> cmd, user |-> user,
             title |-> "Command on Cooldown",
             minutes |-> retry_after \div 60, seconds |-> retry_after % 60]

\* A command whose check fails: the body does not run, on_command_error
\* answers.
Reject(cmd, user, place, admin) ==
    /\ events < budget
    /\ rejection' = on_command_error(events + 1, cmd, user,
                                     CheckError(cmd, place, admin), 0)
    /\ events' = events + 1
    /\ UNCHANGED <<envVars, boardVars, invite_cache, loops, dbVars, tasks,
                   audit_log, pins, now, cooldowns, runs, pageVars>>

\* ---------------------------------------------------------- pagination
\* items_per_page of show_my_referrals, per_page of invite_history.
items_per_page == 5

per_page == 5

\* len(pages), pages = [referrals[i:i + items_per_page]
\*                      for i in range(0, len(referrals), items_per_page)]
PagesOf(n) == Cardinality({i \in 0..(n - 1) : i % items_per_page = 0})

\* total_pages = (len(invited) + per_page - 1) // per_page
TotalPages(n) == (n + per_page - 1) \div per_page

\* No myreferrals answer carries a view; no invitehistory answer waits for
\* reactions.
NoView == [open |-> FALSE, current_page |-> 0, total_pages |-> 0,
           previous_disabled |-> FALSE, next_disabled |-> FALSE]

NoList == [open |-> FALSE, current_page |-> 0, total_pages |-> 0]

\* PaginationView.__init__: page 0, the Previous button disabled; the Next
\* button keeps the default of discord.ui.button, enabled.
PaginationView(total) ==
    [open |-> TRUE, current_page |-> 0, total_pages |-> total,
     previous_disabled |-> TRUE, next_disabled |-> FALSE]

\* The body of show_my_referrals when the SELECT returns n rows: without
\* rows the rewards embed is sent and no view is made.
show_my_referrals(n) ==
    IF n = 0 THEN view ELSE PaginationView(PagesOf(n))

\* SELECT ... FROM referrals WHERE inviter_id = ?
ReferralsOf(ref, user) == Cardinality({i \in 1..Len(ref) : ref[i].inviter_id = user})

\* PaginationView.previous_page: the Previous button of the live view is
\* pressed.
previous_page ==
    /\ view.open
    /\ view' = IF view.current_page > 0
               THEN [view EXCEPT !.current_page = @ - 1,
                                 !.next_disabled = FALSE,
                                 !.previous_disabled =
                                     IF view.current_page - 1 = 0 THEN TRUE ELSE @]
               ELSE view
    /\ UNCHANGED <<envVars, boardVars, invite_cache, loops, dbVars, tasks, events,
                   audit_log, pins, gateVars, invite_list>>

\* PaginationView.next_page: the Next button of the live view is pressed.
next_page ==
    /\ view.open
    /\ view' = IF view.current_page < view.total_pages - 1
               THEN [view EXCEPT !.current_page = @ + 1,
                                 !.previous_disabled = FALSE,
                                 !.next_disabled =
                                     IF view.current_page + 1 = view.total_pages - 1
                                     THEN TRUE ELSE @]
               ELSE view
    /\ UNCHANGED <<envVars, boardVars, invite_cache, loops, dbVars, tasks, events,
                   audit_log, pins, gateVars, invite_list>>

\* PaginationView.on_timeout: 60 seconds without a press; every button is
\* disabled and the view stops.
on_timeout ==
    /\ view.open
    /\ view' = [view EXCEPT !.open = FALSE, !.previous_disabled = TRUE,
                            !.next_disabled = TRUE]
    /\ UNCHANGED <<envVars, boardVars, invite_cache, loops, dbVars, tasks, events,
                   audit_log, pins, gateVars, invite_list>>

\* myreferrals answered for a user with n referral rows.
ShowMyReferrals(n) ==
    /\ ~view.open
    /\ view' = show_my_referrals(n)
    /\ UNCHANGED <<envVars, boardVars, invite_cache, loops, dbVars, tasks, events,
                   audit_log, pins, gateVars, invite_list>>

\* invitehistory answered for a member who invited n members, n > 0: the
\* first page is sent, and the reactions are added and awaited if there is
\* more than one page.
InviteHistory(n) ==
    /\ ~invite_list.open
    /\ invite_list' = [open |-> TotalPages(n) > 1, current_page |-> 0,
                       total_pages |-> TotalPages(n)]
    /\ UNCHANGED <<envVars, boardVars, invite_cache, loops, dbVars, tasks, events,
                   audit_log, pins, gateVars, view>>

\* bot.wait_for('reaction_add') returns with the author's reaction on the
\* message, "next" for the right arrow and "previous" for the left one.
ReactionAdd(emoji) ==
    /\ invite_list.open
    /\ invite_list' =
            IF emoji = "next" /\ invite_list.current_page < invite_list.total_pages - 1
            THEN [invite_list EXCEPT !.current_page = @ + 1]
            ELSE IF emoji = "previous" /\ invite_list.current_page > 0
            THEN [invite_list EXCEPT !.current_page = @ - 1]
            ELSE invite_list
    /\ UNCHANGED <<envVars, boardVars, invite_cache, loops, dbVars, tasks, events,
                   audit_log, pins, gateVars, view>>

\* asyncio.TimeoutError leaves the loop: the reactions are cleared.
ReactionTimeout ==
    /\ invite_list.open
    /\ invite_list' = [invite_list EXCEPT !.open = FALSE]
    /\ UNCHANGED <<envVars, boardVars, invite_cache, loops, dbVars, tasks, events,
                   audit_log, pins, gateVars, view>>

\* myreferrals or leaderboard sent in a DM: the cooldown bucket of the
\* command and user is updated; a limited call raises CommandOnCooldown,
\* otherwise the body runs: it reads the tables and answers in the DM
\* (show_leaderboard with the leaderboard query, show_my_referrals with the
\* user's rows behind a PaginationView).
RunWithCooldown(cmd, user) ==
    LET r == update_rate_limit(cooldowns[<<cmd, user>>], now)
    IN /\ events < budget
       /\ events' = events + 1
       /\ cooldowns' = [cooldowns EXCEPT ![<<cmd, user>>] = r.bucket]
       /\ IF r.limited
          THEN /\ rejection' = on_command_error(events + 1, cmd, user,
                                                "CommandOnCooldown", r.retry_after)
               /\ UNCHANGED <<runs, shown, view>>
          ELSE /\ runs' = [runs EXCEPT ![<<cmd, user>>] = Append(@, now)]
               /\ shown' = IF cmd = "leaderboard"
                           THEN Leaderboard(referrals) ELSE shown
               /\ view' = IF cmd = "myreferrals"
                          THEN show_my_referrals(ReferralsOf(referrals, user))
                          ELSE view
               /\ UNCHANGED rejection
       /\ UNCHANGED <<envVars, last_leaderboard_message, channel_messages, displayed,
                      invite_cache, loops, dbVars, tasks, audit_log, pins, now,
                      invite_list>>

\* A user sends a command message: the framework runs the command's checks,
\* then its cooldown, then its body.
Invoke(cmd, user, place, admin) ==
    /\ ~Held
    /\ IF CheckError(cmd, place, admin) # ""
       THEN Reject(cmd, user, place, admin)
       ELSE CASE cmd = "validate" -> ValidateCommand
              [] cmd = "resethistory" -> ResetHistory
              [] OTHER -> RunWithCooldown(cmd, user)

\* Time passes.
ClockSteps == {1, CooldownPer - 1, CooldownPer, CooldownPer + 1}

AdvanceClock(d) ==
    /\ events < budget
    /\ now' = now + d
    /\ events' = events + 1
    /\ UNCHANGED <<envVars, boardVars, invite_cache, loops, dbVars, tasks,
                   audit_log, pins, cooldowns, rejection, runs, pageVars>>

\* The command gate followed on its own: command messages of every kind
\* from every place, the clock, and the steps of the validate command.
CommandsNext ==
    \/ \E cmd \in Commands, u \in Members, place \in Places, admin \in BOOLEAN :
            Invoke(cmd, u, place, admin)
    \/ \E d \in ClockSteps : AdvanceClock(d)
    \/ \E t \in TaskIds : CommandStart(t)
    \/ \E t \in TaskIds : CommandValidate(t)
    \/ \E t \in TaskIds : CommandReport(t)
    \/ \E t \in TaskIds : Publish(t)
    \/ \E t \in TaskIds : PublishDelete(t)
    \/ \E t \in TaskIds : PublishSend(t)

\* The guide embed on_ready sends and pins, and the embed of a leaderboard
\* message.
GuideTitle == "Referral System Guide"

BoardTitle == "Referral Leaderboard"

\* The state of the command gate when the bot has started : no audit row,
\* fresh cooldown buckets, nothing rejected or run yet.
CmdInit(pinned) ==
    /\ audit_log = <<>>
    /\ pins = pinned
    /\ now = 0
    /\ cooldowns = [k \in CooldownKeys |-> NewBucket]
    /\ rejection = NoRejection
    /\ runs = [k \in CooldownKeys |-> <<>>]
    /\ view = NoView
    /\ invite_list = NoList

\* --------------------------------------------------------------- on_ready
\* The gateway reports the client ready, at startup and after a reconnect
\* that could not resume: on_ready becomes a task.
Ready ==
    /\ UNCHANGED <<boardVars, cmdVars>>
    /\ ~Held
    /\ events < budget
    /\ \E t \in TaskIds : FreeSlot(t) /\ Spawn(t, "ready", 0, FALSE)
    /\ events' = events + 1
    /\ UNCHANGED <<envVars, invite_cache, loops, dbVars>>

\* Up to the first await: setup_database creates the tables that are
\* missing, populate_member_history fills an empty member_history (its
\* INSERT raises on a locked database and ends on_ready), and
\* guild.invites() is awaited.
ReadyStart(t) ==
    /\ UNCHANGED <<boardVars, cmdVars>>
    /\ ~Held
    /\ tasks[t].kind = "ready" /\ FirstToStart(t)
    /\ IF Locked(t) /\ populate_member_history(member_history) # member_history
       THEN /\ Finish(t)
            /\ UNCHANGED member_history
       ELSE /\ member_history' = populate_member_history(member_history)
            /\ tasks' = [tasks EXCEPT ![t].pc = "await_invites", ![t].seq = 0]
    /\ UNCHANGED <<envVars, invite_cache, loops, referrals, txn, events>>

\* guild.invites() returns and the list becomes the cache, or it raises and
\* ends on_ready.  Without a leaderboard channel the auto-update task is
\* created at once; with one, leaderboard_channel.pins() is awaited.
ReadyFetch(t) ==
    /\ UNCHANGED <<boardVars, cmdVars>>
    /\ ~Held
    /\ tasks[t].kind = "ready" /\ tasks[t].pc = "await_invites"
    /\ \/ /\ invite_cache' = invites
          /\ IF boardChannel
             THEN Goto(t, "await_pins") /\ UNCHANGED loops
             ELSE Finish(t) /\ loops' = loops + 1
       \/ /\ Finish(t)
          /\ UNCHANGED <<invite_cache, loops>>
    /\ UNCHANGED <<envVars, dbVars, events>>

\* info_message_exists: a pinned message of the bot whose embed is titled
\* "Referral Leaderboard".
info_message_exists(pinned) == \E i \in DOMAIN pinned : pinned[i] = BoardTitle

\* pins() returns: the guide is sent unless info_message_exists; or pins()
\* raises, which is caught and leads to the sleep before the auto-update
\* task.
ReadyScan(t) ==
    /\ UNCHANGED <<boardVars, cmdVars>>
    /\ ~Held
    /\ tasks[t].kind = "ready" /\ tasks[t].pc = "await_pins"
    /\ \/ IF info_message_exists(pins)
          THEN Goto(t, "ready_sleep")
          ELSE Goto(t, "await_guide_send")
       \/ Goto(t, "ready_sleep")
    /\ UNCHANGED <<envVars, invite_cache, loops, dbVars, events>>

\* leaderboard_channel.send(embed=info_embed) returns and info_message.pin()
\* is awaited, or it raises (caught).
ReadyGuideSend(t) ==
    /\ UNCHANGED <<boardVars, cmdVars>>
    /\ ~Held
    /\ tasks[t].kind = "ready" /\ tasks[t].pc = "await_guide_send"
    /\ \/ Goto(t, "await_guide_pin")
       \/ Goto(t, "ready_sleep")
    /\ UNCHANGED <<envVars, invite_cache, loops, dbVars, events>>

\* info_message.pin() returns: the guide is pinned; or it raises (caught).
ReadyGuidePin(t) ==
    /\ UNCHANGED <<boardVars, audit_log, gateVars, pageVars>>
    /\ ~Held
    /\ tasks[t].kind = "ready" /\ tasks[t].pc = "await_guide_pin"
    /\ \/ pins' = Append(pins, GuideTitle)
       \/ UNCHANGED pins
    /\ Goto(t, "ready_sleep")
    /\ UNCHANGED <<envVars, invite_cache, loops, dbVars, events>>

\* asyncio.sleep(1) returns: bot.loop.create_task(auto_update_loop()).  Every
\* ready event creates one more loop.
ReadyLoop(t) ==
    /\ UNCHANGED <<boardVars, cmdVars>>
    /\ ~Held
    /\ tasks[t].kind = "ready" /\ tasks[t].pc = "ready_sleep"
    /\ Finish(t)
    /\ loops' = loops + 1
    /\ UNCHANGED <<envVars, invite_cache, dbVars, events>>

\* An administrator pins the bot's live leaderboard message.
PinBoard ==
    /\ UNCHANGED <<boardVars, audit_log, gateVars, pageVars>>
    /\ ~Held
    /\ events < budget
    /\ channel_messages # {}
    /\ ~info_message_exists(pins)
    /\ pins' = Append(pins, BoardTitle)
    /\ events' = events + 1
    /\ UNCHANGED <<envVars, invite_cache, loops, dbVars, tasks>>

\* The process has started and the client is not ready yet: the module
\* globals are empty, the database is new or the one of a previous session.
ReadyInit ==
    /\ roleExists = TRUE
    /\ names = [m \in Members |-> 0]
    /\ logsChannel = FALSE
    /\ roster = {1}
    /\ resident \in SUBSET {1}
    /\ invites = {[code |-> 1, uses |-> 0]}
    /\ referrals = <<>>
    /\ member_history = EmptyHistory
    /\ channel_messages = {}
    /\ CmdInit(<<>>)
    /\ invite_cache = {}
    /\ txn = NoTxn
    /\ tasks = [t \in TaskIds |-> Idle]
    /\ loops = 0
    /\ probe = NoProbe
    /\ budget = MaxEvents
    /\ boardChannel \in BOOLEAN
    /\ shown = <<>>
    /\ displayed = <<>>
    /\ last_leaderboard_message = 0
    /\ events = 0

ReadyNext ==
    \/ Ready
    \/ \E t \in TaskIds : ReadyStart(t)
    \/ \E t \in TaskIds : ReadyFetch(t)
    \/ \E t \in TaskIds : ReadyScan(t)
    \/ \E t \in TaskIds : ReadyGuideSend(t)
    \/ \E t \in TaskIds : ReadyGuidePin(t)
    \/ \E t \in TaskIds : ReadyLoop(t)
    \/ PinBoard
    \/ Tick
    \/ \E t \in TaskIds : ValidateStep(t)
    \/ \E t \in TaskIds : Sleep(t)
    \/ \E t \in TaskIds : Publish(t)
    \/ \E t \in TaskIds : PublishDelete(t)
    \/ \E t \in TaskIds : PublishSend(t)

SpecReady == ReadyInit /\ [][ReadyNext]_vars

\* ------------------------------------------------------ specification
\* The tables a previous session leaves behind when member 2 came in through
\* code 1 and a validation pass ran afterwards, for the role holders at hand.
PersistedDb ==
    ValidatePass(
        [referrals |-> <<NewRow([code |-> 1, uses |-> 1], 0, 2, 0, FALSE)>>,
         member_history |->
            HistAdd(AddCurrent(EmptyHistory, {1}), 2, "join", FALSE)])

\* on_ready has run and the invites are cached: either on an empty database
\* (member 1 is present, invite code 1 exists, populate_member_history has
\* recorded the current residents), or after a restart on the database of a
\* previous session, whose leaderboard message is still in the channel while
\* last_leaderboard_message starts again at None.
Init ==
    /\ roleExists = TRUE
    /\ names = [m \in Members |-> 0]
    /\ logsChannel \in BOOLEAN
    /\ \/ /\ roster = {1}
          /\ resident \in SUBSET {1}
          /\ invites = {[code |-> 1, uses |-> 0]}
          /\ referrals = <<>>
          /\ member_history = populate_member_history(EmptyHistory)
          /\ channel_messages = {}
          /\ CmdInit(<<GuideTitle>>)
       \/ /\ roster = {1, 2}
          /\ resident \in {{1}, {1, 2}}
          /\ invites = {[code |-> 1, uses |-> 1]}
          /\ referrals = PersistedDb.referrals
          /\ member_history = PersistedDb.member_history
          /\ channel_messages = {1}
          /\ CmdInit(<<GuideTitle, GuideTitle>>)
    /\ invite_cache = invites
    /\ txn = NoTxn
    /\ tasks = [t \in TaskIds |-> Idle]
    /\ loops = 1
    /\ probe = NoProbe
    /\ budget = MaxEvents
    /\ boardChannel = TRUE
    /\ shown = <<>>
    /\ displayed = <<>>
    /\ last_leaderboard_message = 0
    /\ channel_messages \subseteq {1}
    /\ events = 0

Next ==
    \/ \E m \in Members, c \in {0} \cup Codes : MemberJoin(m, c)
    \/ \E m \in Members : MemberLeave(m)
    \/ \E m \in Members : GrantRole(m)
    \/ \E m \in Members : RevokeRole(m)
    \/ RoleRemoved
    \/ RoleCreated
    \/ \E c \in Codes : CreateInvite(c)
    \/ \E c \in Codes : DeleteInvite(c)
    \/ \E m \in Members : Rename(m)
    \/ Tick
    \/ \E t \in TaskIds : JoinStart(t)
    \/ \E t \in TaskIds : JoinFetch(t)
    \/ \E t \in TaskIds : JoinResolve(t)
    \/ \E t \in TaskIds : JoinSend(t)
    \/ \E t \in TaskIds : JoinCache(t)
    \/ \E t \in TaskIds : LeaveStore(t)
    \/ \E t \in TaskIds : LeaveLog(t)
    \/ \E t \in TaskIds : LeaveSend(t)
    \/ ValidateCommand
    \/ \E t \in TaskIds : CommandStart(t)
    \/ \E t \in TaskIds : CommandValidate(t)
    \/ \E t \in TaskIds : CommandReport(t)
    \/ ResetHistory
    \/ \E t \in TaskIds : ValidateStep(t)
    \/ \E t \in TaskIds : Sleep(t)
    \/ \E t \in TaskIds : Publish(t)
    \/ \E t \in TaskIds : PublishDelete(t)
    \/ \E t \in TaskIds : PublishSend(t)

Spec == Init /\ [][Next]_vars

SpecCommands == Init /\ [][CommandsNext]_vars

\* ---------------------------------------------- attribution taken alone
\* The attribution loop applied to every cached snapshot and every refreshed
\* listing within the bounds.
AttrInit ==
    /\ CmdInit(<<GuideTitle>>)
    /\ roster = {1}
    /\ resident = {}
    /\ roleExists = TRUE
    /\ names = [m \in Members |-> 0]
    /\ invites = {}
    /\ logsChannel = FALSE
    /\ invite_cache = {}
    /\ referrals = <<>>
    /\ member_history = EmptyHistory
    /\ txn = NoTxn
    /\ tasks = [t \in TaskIds |-> Idle]
    /\ loops = 1
    /\ boardChannel = TRUE
    /\ shown = <<>>
    /\ displayed = <<>>
    /\ last_leaderboard_message = 0
    /\ channel_messages = {}
    /\ events = 0
    /\ budget = 0
    /\ \E cache \in InviteSets, S \in InviteSets :
        \E listing \in Listings(S) :
            probe = [cache |-> cache, listing |-> listing, out |-> NoInvite, done |-> FALSE]

ProbeAttribution ==
    /\ UNCHANGED <<boardVars, cmdVars>>
    /\ ~probe.done
    /\ probe' = [probe EXCEPT !.out = Attribution(probe.cache, probe.listing),
                              !.done = TRUE]
    /\ UNCHANGED <<roster, resident, roleExists, names, invites, logsChannel,
                   boardChannel, invite_cache, referrals, member_history,
                   txn, tasks, loops, events, budget>>

AttrNext == ProbeAttribution

SpecAttr == AttrInit /\ [][AttrNext]_vars

\* ------------------------------------------- leaderboard query taken alone
\* The leaderboard query applied to referral tables: every table of up to
\* MaxRows rows over a few inviters, and tables with more inviters than the
\* leaderboard has places.
BoardRow(inviter, name, validated, active) ==
    [inviter_id |-> inviter, inviter_name |-> name, invited_id |-> 1,
     invite_code |-> 1, joined_at |-> 0, is_validated |-> validated,
     is_member_active |-> active, was_previous_resident |-> FALSE]

BoardRows ==
    {BoardRow(i, n, v, a) : i \in {1, 2, 90}, n \in 0..MaxNameVer,
                            v \in BOOLEAN, a \in BOOLEAN}

SmallTables == UNION {[1..n -> BoardRows] : n \in 0..MaxRows}

\* One active row for each of MaxInviters inviters, validated for those in V,
\* followed by nothing, by a validated row of a denylisted inviter, or by an
\* inactive row of one more inviter.
ManyInviters(V, extra) ==
    [i \in 1..MaxInviters |-> BoardRow(i, 0, i \in V, TRUE)]
        \o (CASE extra = 0 -> <<>>
              [] extra = 1 -> <<BoardRow(90, 0, TRUE, TRUE)>>
              [] extra = 2 -> <<BoardRow(MaxInviters + 1, 0, FALSE, FALSE)>>)

BoardInit ==
    /\ CmdInit(<<GuideTitle>>)
    /\ roster = {1}
    /\ resident = {}
    /\ roleExists = TRUE
    /\ names = [m \in Members |-> 0]
    /\ invites = {}
    /\ logsChannel = FALSE
    /\ invite_cache = {}
    /\ referrals \in SmallTables
            \cup {ManyInviters(V, x) : V \in SUBSET (1..MaxInviters), x \in 0..2}
    /\ member_history = EmptyHistory
    /\ txn = NoTxn
    /\ tasks = [t \in TaskIds |-> Idle]
    /\ loops = 0
    /\ probe = NoProbe
    /\ budget = 0
    /\ boardChannel = TRUE
    /\ shown = <<>>
    /\ displayed = <<>>
    /\ last_leaderboard_message = 0
    /\ channel_messages = {}
    /\ events = 0

\* show_leaderboard: the same SELECT as update_leaderboard, rendered into the
\* message sent to the caller.
ShowLeaderboard ==
    /\ UNCHANGED cmdVars
    /\ shown' = Leaderboard(referrals)
    /\ UNCHANGED <<envVars, last_leaderboard_message, channel_messages, displayed, invite_cache,
                   loops, dbVars, tasks, events>>

BoardNext == ShowLeaderboard

SpecBoard == BoardInit /\ [][BoardNext]_vars

\* ------------------------------------------------- two joins, one after the other
\* Members 1 and 2 join an empty guild, member 1 through invite code 2 and
\* member 2 through invite code 1, and the loop starts a join handler only
\* when no other join handler is between its start and its cache update.
PairInit ==
    /\ roster = {}
    /\ resident = {}
    /\ roleExists = TRUE
    /\ names = [m \in Members |-> 0]
    /\ invites = {[code |-> 1, uses |-> 0], [code |-> 2, uses |-> 0]}
    /\ logsChannel \in BOOLEAN
    /\ CmdInit(<<GuideTitle>>)
    /\ invite_cache = invites
    /\ referrals = <<>>
    /\ member_history = EmptyHistory
    /\ txn = NoTxn
    /\ tasks = [t \in TaskIds |-> Idle]
    /\ loops = 1
    /\ probe = NoProbe
    /\ budget = MaxEvents
    /\ boardChannel = FALSE
    /\ shown = <<>>
    /\ displayed = <<>>
    /\ last_leaderboard_message = 0
    /\ channel_messages = {}
    /\ events = 0

JoinStartInTurn(t) ==
    /\ \A u \in TaskIds \ {t} :
            tasks[u].kind = "join"
                => tasks[u].pc \notin {"await_invites", "invites_ready",
                                       "await_send", "stored"}
    /\ JoinStart(t)

PairNext ==
    \/ MemberJoin(1, 2)
    \/ MemberJoin(2, 1)
    \/ \E t \in TaskIds : JoinStartInTurn(t)
    \/ \E t \in TaskIds : JoinFetch(t)
    \/ \E t \in TaskIds : JoinResolve(t)
    \/ \E t \in TaskIds : JoinSend(t)
    \/ \E t \in TaskIds : JoinCache(t)
    \/ \E t \in TaskIds : ValidateStep(t)
    \/ \E t \in TaskIds : Sleep(t)
    \/ \E t \in TaskIds : Publish(t)

SpecPair == PairInit /\ [][PairNext]_vars

\* ------------------------------------------------- overlapping triggers
\* Leaves and periodic runs whose platform calls all return: every handler
\* runs to its end, in any interleaving of the steps between its awaits.
LeaveSendReturns(t) == LeaveSend(t) /\ tasks'[t].pc = "validate"

PublishDeleteReturns(t) == PublishDelete(t) /\ tasks'[t].pc = "await_board_send"

PublishSendReturns(t) ==
    PublishSend(t) /\ last_leaderboard_message' # last_leaderboard_message

OverlapNext ==
    \/ \E m \in Members : MemberLeave(m)
    \/ Tick
    \/ \E t \in TaskIds : LeaveStore(t)
    \/ \E t \in TaskIds : LeaveLog(t)
    \/ \E t \in TaskIds : LeaveSendReturns(t)
    \/ \E t \in TaskIds : ValidateStep(t)
    \/ \E t \in TaskIds : Sleep(t)
    \/ \E t \in TaskIds : Publish(t)
    \/ \E t \in TaskIds : PublishDeleteReturns(t)
    \/ \E t \in TaskIds : PublishSendReturns(t)

SpecOverlap == Init /\ [][OverlapNext]_vars

\* ------------------------------------------------- one member coming and going
\* Member 2 joins and leaves again and again and is granted the role, in a
\* guild without log and leaderboard channels in which member 1 holds the
\* role, followed for MaxChurn platform events.
ChurnInit ==
    /\ CmdInit(<<GuideTitle>>)
    /\ roster = {1}
    /\ resident = {1}
    /\ roleExists = TRUE
    /\ names = [m \in Members |-> 0]
    /\ invites = {[code |-> 1, uses |-> 0]}
    /\ logsChannel = FALSE
    /\ invite_cache = invites
    /\ referrals = <<>>
    /\ member_history = populate_member_history(EmptyHistory)
    /\ txn = NoTxn
    /\ tasks = [t \in TaskIds |-> Idle]
    /\ loops = 1
    /\ probe = NoProbe
    /\ budget = MaxChurn
    /\ boardChannel = FALSE
    /\ shown = <<>>
    /\ displayed = <<>>
    /\ last_leaderboard_message = 0
    /\ channel_messages = {}
    /\ events = 0

ChurnNext ==
    \/ \E c \in {0, 1} : MemberJoin(2, c)
    \/ MemberLeave(2)
    \/ GrantRole(2)
    \/ \E t \in TaskIds : JoinStart(t)
    \/ \E t \in TaskIds : JoinFetch(t)
    \/ \E t \in TaskIds : JoinResolve(t)
    \/ \E t \in TaskIds : JoinCache(t)
    \/ \E t \in TaskIds : LeaveStore(t)
    \/ \E t \in TaskIds : LeaveLog(t)
    \/ \E t \in TaskIds : ValidateStep(t)
    \/ \E t \in TaskIds : Sleep(t)
    \/ \E t \in TaskIds : Publish(t)

SpecChurn == ChurnInit /\ [][ChurnNext]_vars

\* ================================================================ claims
\* The use count the cache holds for a code; 0 when the code is not cached.
CachedUses(cache, code) ==
    IF \E x \in cache : x.code = code
    THEN (CHOOSE x \in cache : x.code = code).uses
    ELSE 0

ListedInvites(listing) == {listing[i] : i \in 1..Len(listing)}

\* Cache and listing hold the same codes; exactly code c has a larger count
\* in the listing and every other code an equal one.
OnlyIncrease(cache, listing, c) ==
    /\ {x.code : x \in cache} = {x.code : x \in ListedInvites(listing)}
    /\ \A x \in ListedInvites(listing) :
        IF x.code = c THEN x.uses > CachedUses(cache, x.code)
                      ELSE x.uses = CachedUses(cache, x.code)

\* C5: when cache and refreshed listing hold the same codes and exactly one
\* code c has a larger use count (all others equal), the attribution is the
\* refreshed invite of code c, wherever c stands in the listing.
C5_SingleIncreaseResolved ==
    probe.done =>
        \A c \in Codes :
            (c \in {x.code : x \in probe.cache} /\ OnlyIncrease(probe.cache, probe.listing, c))
                => probe.out.code = c

\* C5 witness: the single increased code is resolved although it is not the
\* first invite of the listing.
C5_Witness ==
    /\ probe.done
    /\ Len(probe.listing) >= 2
    /\ \E c \in Codes :
        /\ OnlyIncrease(probe.cache, probe.listing, c)
        /\ probe.listing[1].code # c
        /\ probe.out.code = c

\* An invite of the listing that attribution may pick.
IsCandidate(cache, invite) ==
    (\A x \in cache : x.code # invite.code) \/ invite.uses > CachedUses(cache, invite.code)

\* C6: the attribution is the first invite, in listing order, whose count
\* exceeds its cached count or that has no cached counterpart, and it is
\* empty when the listing holds no such invite.
C6_FirstMatchInListingOrder ==
    probe.done =>
        LET cand == {i \in 1..Len(probe.listing) : IsCandidate(probe.cache, probe.listing[i])}
        IN IF cand = {}
           THEN probe.out = NoInvite
           ELSE \E i \in cand : (\A j \in cand : i <= j) /\ probe.out = probe.listing[i]

\* C6 witness: the first match is returned although a later invite of the
\* listing has the larger increase.
C6_Witness ==
    /\ probe.done
    /\ Len(probe.listing) >= 2
    /\ probe.out = probe.listing[1]
    /\ IsCandidate(probe.cache, probe.listing[2])
    /\ probe.listing[2].uses - CachedUses(probe.cache, probe.listing[2].code)
         > probe.listing[1].uses - CachedUses(probe.cache, probe.listing[1].code)

\* ------------------------------------------------------ validation pass
\* Task t has just returned from validate_referrals and has not yet reached
\* its next await.
PassDone(t) == tasks[t].pc = "validated"

\* Both parties of row r are present and hold the role.
BothHold(r) ==
    /\ r.inviter_id \in roster /\ r.inviter_id \in resident
    /\ r.invited_id \in roster /\ r.invited_id \in resident

Rows == 1..Len(referrals)

\* C1 as stated: after a validation pass that ran in full, every row, active
\* or not, is validated exactly when both its parties are present and hold
\* the role.
C1_ValidatedIffBothHold ==
    \A t \in TaskIds :
        (PassDone(t) /\ roleExists) =>
            \A i \in Rows : referrals[i].is_validated <=> BothHold(referrals[i])

\* C1 as amended: after a validation pass that ran in full, every active row
\* is validated exactly when both its parties are present and hold the role;
\* an inactive row is validated only if an active row of the same inviter and
\* invitee is.
C1_ActiveValidatedIffBothHold ==
    \A t \in TaskIds :
        (PassDone(t) /\ roleExists) =>
            \A i \in Rows :
                IF referrals[i].is_member_active
                THEN referrals[i].is_validated <=> BothHold(referrals[i])
                ELSE referrals[i].is_validated =>
                        \E j \in Rows :
                            /\ referrals[j].is_member_active
                            /\ referrals[j].is_validated
                            /\ referrals[j].inviter_id = referrals[i].inviter_id
                            /\ referrals[j].invited_id = referrals[i].invited_id

\* C1 witness: a pass has just validated an active row.
C1_Witness ==
    \E t \in TaskIds :
        /\ PassDone(t) /\ roleExists
        /\ \E i \in Rows : referrals[i].is_member_active /\ referrals[i].is_validated

\* C9: after every invocation of validate_referrals, also in a guild without
\* a role of the designated name, no row is validated unless both its
\* parties are present and hold the role.
C9_NoStalePositive ==
    \A t \in TaskIds :
        PassDone(t) => \A i \in Rows : referrals[i].is_validated => BothHold(referrals[i])

RowStates(ref) ==
    [i \in 1..Len(ref) |->
        <<ref[i].is_validated, ref[i].is_member_active, ref[i].was_previous_resident>>]

\* C10: a second validation pass run right after a first, with roster and
\* roles as they are, leaves is_validated, is_member_active and
\* was_previous_resident of every row as the first pass left them.
C10_PassIdempotent ==
    \A t \in TaskIds :
        PassDone(t) =>
            RowStates(validate_referrals([referrals |-> referrals,
                                          member_history |-> member_history]).referrals)
                = RowStates(referrals)

\* C10 witness: a pass has just run in full over a table with a validated row
\* and a row that is not validated.
C10_Witness ==
    \E t \in TaskIds :
        /\ PassDone(t) /\ roleExists
        /\ \E i \in Rows : referrals[i].is_validated
        /\ \E i \in Rows : ~referrals[i].is_validated

\* ------------------------------------------------------ joins and leaves
\* C2: in every reachable state at most one row per invitee has
\* is_member_active = TRUE, under any interleaving of the join and leave
\* handlers.
C2_OneActiveRowPerInvitee ==
    \A i, j \in Rows :
        (i # j /\ referrals[i].invited_id = referrals[j].invited_id)
            => ~(referrals[i].is_member_active /\ referrals[j].is_member_active)

\* Handler t returns after its last statement: update_leaderboard has sent
\* its message, or has returned for want of a leaderboard channel.
Returns(t) ==
    /\ tasks'[t] = Idle
    /\ \/ tasks[t].pc = "await_board_send" /\ channel_messages' # channel_messages
       \/ tasks[t].pc = "sleep" /\ ~boardChannel

\* The leave handler t returns after its last await.
LeaveCompletes(t) == tasks[t].kind = "leave" /\ Returns(t)

\* The try block of leave handler t commits in this step.
LeaveCommits(t) ==
    /\ tasks[t].kind = "leave" /\ tasks[t].pc = "start"
    /\ tasks'[t].pc = "stored" /\ tasks'[t].ok

\* C3 as stated: when the leave handler has completed, every row in which the
\* leaver is inviter or invitee has is_member_active = FALSE and
\* is_validated = FALSE.
C3_LeaverRowsInactive ==
    [][\A t \in TaskIds :
        LeaveCompletes(t) =>
            \A i \in 1..Len(referrals') :
                (referrals'[i].inviter_id = tasks[t].member
                    \/ referrals'[i].invited_id = tasks[t].member)
                => (~referrals'[i].is_member_active /\ ~referrals'[i].is_validated)]_vars

\* C3 as amended: when the leave handler's store step commits, every row in
\* which the leaver is the invitee has is_member_active = FALSE and
\* is_validated = FALSE, and every other row, those in which the leaver is
\* only the inviter included, is as it was.
C3_InviteeRowsInactive ==
    [][\A t \in TaskIds :
        LeaveCommits(t) =>
            /\ Len(referrals') = Len(referrals)
            /\ \A i \in Rows :
                IF referrals[i].invited_id = tasks[t].member
                THEN ~referrals'[i].is_member_active /\ ~referrals'[i].is_validated
                ELSE referrals'[i] = referrals[i]]_vars

\* C3 witness: a leave has been stored while the leaver is the invitee of one
\* row and the inviter, not the invitee, of another that is still active.
C3_Witness ==
    \E t \in TaskIds :
        /\ tasks[t].kind = "leave" /\ tasks[t].pc = "stored" /\ tasks[t].ok
        /\ \E i \in Rows : referrals[i].invited_id = tasks[t].member
        /\ \E j \in Rows :
            /\ referrals[j].inviter_id = tasks[t].member
            /\ referrals[j].invited_id # tasks[t].member
            /\ referrals[j].is_member_active

\* The store step of join handler t is over: its transaction has been
\* committed or rolled back.
JoinStored(t) == tasks[t].kind = "join" /\ tasks[t].pc = "stored"

\* The transaction of join handler t commits in this step.
JoinCommits(t) ==
    /\ tasks[t].kind = "join" /\ tasks[t].pc \in {"invites_ready", "await_send"}
    /\ tasks'[t].pc = "stored" /\ tasks'[t].ok

NoIncrease(cache, snapshot) ==
    \A x \in snapshot : x.uses <= CachedUses(cache, x.code)

\* C7: when a member without a row joins and no invite of the refreshed
\* snapshot shows a use count above the cache, attribution is empty and the
\* store step leaves the referrals table as it was.
C7_NoIncreaseNoRow ==
    [][\A t \in TaskIds :
        ( /\ tasks[t].kind = "join" /\ tasks[t].pc = "invites_ready"
          /\ tasks'[t].pc \in {"await_send", "stored"}
          /\ ~tasks[t].has_previous_record
          /\ NoIncrease(invite_cache, tasks[t].invites_after) )
        => /\ tasks'[t].invite_used = NoInvite
           /\ (IF txn'.owner = t THEN txn'.referrals ELSE referrals') = referrals]_vars

\* C8: no step of the join handler of a member who has a row changes the
\* number of rows or the inviter_id, inviter_name, invite_code or joined_at
\* of any row, whichever invite the join consumed.
C8_RejoinKeepsAttribution ==
    [][\A t \in TaskIds :
        ( /\ tasks[t].kind = "join" /\ tasks'[t] # tasks[t]
          /\ (tasks[t].has_previous_record \/ tasks'[t].has_previous_record) )
        => LET after == IF txn'.owner = t THEN txn'.referrals ELSE referrals'
           IN /\ Len(after) = Len(referrals)
              /\ \A i \in Rows :
                    /\ after[i].inviter_id = referrals[i].inviter_id
                    /\ after[i].inviter_name = referrals[i].inviter_name
                    /\ after[i].invite_code = referrals[i].invite_code
                    /\ after[i].joined_at = referrals[i].joined_at
                    /\ after[i].invited_id = referrals[i].invited_id]_vars

\* C8 witness: the join of a member who has a row has committed after
\* consuming an invite of another code and another inviter than the row's.
C8_Witness ==
    \E t \in TaskIds :
        /\ JoinStored(t) /\ tasks[t].ok /\ tasks[t].has_previous_record
        /\ tasks[t].invite_used # NoInvite
        /\ \E i \in Rows :
            /\ referrals[i].invited_id = tasks[t].member
            /\ referrals[i].invite_code # tasks[t].invite_used.code
            /\ referrals[i].inviter_id # InviteOwner(tasks[t].invite_used.code)

\* C13: in a leaderboard the query returned, for any two entries X before Y,
\* validated(X) > validated(Y), or validated(X) = validated(Y) and
\* total(X) >= total(Y).
C13_OrderedByValidatedThenTotal ==
    \A i, j \in 1..Len(shown) :
        i < j =>
            \/ shown[i].validated_count > shown[j].validated_count
            \/ /\ shown[i].validated_count = shown[j].validated_count
               /\ shown[i].total_count >= shown[j].total_count

\* C13 witness: a leaderboard whose first entry has more validated and fewer
\* active referrals than the second.
C13_Witness ==
    /\ Len(shown) >= 2
    /\ shown[1].validated_count > shown[2].validated_count
    /\ shown[1].total_count < shown[2].total_count

\* C14: every inviter id appears in at most one entry of a leaderboard the
\* query returned, and every entry counts all active rows of its inviter,
\* validated and pending adding up to the total.
C14_OneEntryPerInviter ==
    /\ \A i, j \in 1..Len(shown) :
            shown[i].inviter_id = shown[j].inviter_id => i = j
    /\ \A i \in 1..Len(shown) :
            shown[i].validated_count + shown[i].unvalidated_count = shown[i].total_count

\* The inviters a leaderboard is owed to on table ref: not denylisted, with
\* at least one active referral.
EligibleInviters(ref) ==
    {ref[i].inviter_id : i \in {k \in 1..Len(ref) :
        ref[k].is_member_active /\ ref[k].inviter_id \notin {90, 91}}}

ValidatedOf(ref, x) ==
    Cardinality({i \in 1..Len(ref) :
        ref[i].inviter_id = x /\ ref[i].is_member_active /\ ref[i].is_validated})

TotalOf(ref, x) ==
    Cardinality({i \in 1..Len(ref) : ref[i].inviter_id = x /\ ref[i].is_member_active})

\* Inviter x sorts strictly before inviter y in the full ordering.
InviterOutranks(ref, x, y) ==
    \/ ValidatedOf(ref, x) > ValidatedOf(ref, y)
    \/ ValidatedOf(ref, x) = ValidatedOf(ref, y) /\ TotalOf(ref, x) > TotalOf(ref, y)

\* Sequence s is the first ten of the full ordering over the eligible
\* inviters of table ref.
FirstTenOf(ref, s) ==
    LET listed == {s[i].inviter_id : i \in 1..Len(s)}
        n == Cardinality(EligibleInviters(ref))
    IN /\ Len(s) = (IF n < 10 THEN n ELSE 10)
       /\ listed \subseteq EligibleInviters(ref)
       /\ \A i, j \in 1..Len(s) : s[i].inviter_id = s[j].inviter_id => i = j
       /\ \A i \in 1..Len(s) :
            /\ s[i].validated_count = ValidatedOf(ref, s[i].inviter_id)
            /\ s[i].total_count = TotalOf(ref, s[i].inviter_id)
       /\ \A i, j \in 1..Len(s) :
            i < j => ~InviterOutranks(ref, s[j].inviter_id, s[i].inviter_id)
       /\ \A x \in EligibleInviters(ref) \ listed :
            \A i \in 1..Len(s) : ~InviterOutranks(ref, x, s[i].inviter_id)

\* C15: whenever the leaderboard query returns, its result has at most 10
\* entries, which are exactly the first 10 of the full ordering over the
\* non-denylisted inviters with at least one active referral; no denylisted
\* inviter and no inviter without active referrals is among them.
C15_FirstTenOfEligible ==
    [][shown' # shown => FirstTenOf(referrals, shown')]_vars

\* C16: in every reachable state at most one leaderboard message sent by
\* the bot is live in the leaderboard channel.
C16_OneLiveLeaderboardMessage == Cardinality(channel_messages) <= 1

\* C17: a publish that finds a tracked message awaits its deletion before it
\* sends anything; it goes on to send once that message is gone, whether it
\* deleted it or found it deleted already; and every message that appears in
\* the channel is sent by a publish that is past this deletion, and is the
\* tracked message as soon as that publish completes, for an empty and a
\* non-empty ranking alike.
C17_DeleteThenSendAndTrack ==
    [][/\ \A t \in TaskIds :
            /\ ( /\ tasks[t].pc = "sleep" /\ tasks'[t].pc # "sleep"
                 /\ boardChannel /\ last_leaderboard_message # 0 )
               => /\ tasks'[t].pc = "await_delete"
                  /\ tasks'[t].target = last_leaderboard_message
                  /\ channel_messages' = channel_messages
            /\ (tasks[t].pc = "await_delete" /\ tasks'[t].pc = "await_board_send")
               => /\ tasks[t].target \notin channel_messages'
                  /\ channel_messages' \subseteq channel_messages
            /\ ( /\ tasks[t].pc = "await_delete" /\ tasks'[t] # tasks[t]
                 /\ tasks[t].target \notin channel_messages )
               => tasks'[t].pc = "await_board_send"
       /\ channel_messages' \ channel_messages # {}
            => \E t \in TaskIds :
                /\ tasks[t].pc = "await_board_send" /\ tasks'[t] = Idle
                /\ tasks[t].target \notin channel_messages'
                /\ channel_messages' \ channel_messages = {last_leaderboard_message'}
                /\ last_leaderboard_message' # 0]_vars

\* C17 witness: a publish with a non-empty ranking has completed after
\* deleting the message an earlier publish of this session had sent: its
\* message is the tracked one and the only one live.
C17_Witness ==
    /\ last_leaderboard_message >= 2
    /\ channel_messages = {last_leaderboard_message}
    /\ shown # <<>>
    /\ \A t \in TaskIds : tasks[t] = Idle

\* C18: a handler started by a join, a leave, the periodic task or the
\* validate command ends only by completing the publish that follows its
\* validation pass: it never ends before it has sent the leaderboard.
C18_TriggerRunsToPublish ==
    [][\A t \in TaskIds :
        (tasks[t].kind # "none" /\ tasks'[t].kind = "none")
        => /\ tasks[t].pc = "await_board_send"
           /\ last_leaderboard_message' \in channel_messages' \ channel_messages]_vars

\* C19: when a join or leave handler has completed, every referral row has
\* was_previous_resident = TRUE exactly when member_history holds a leave
\* entry of the row's invitee recorded with the role held.
C19_PreviousResidentMatchesHistory ==
    [][\A t \in TaskIds :
        (tasks[t].kind \in {"join", "leave"} /\ Returns(t))
        => \A i \in 1..Len(referrals') :
                referrals'[i].was_previous_resident
                    <=> WasResident(member_history', referrals'[i].invited_id)]_vars

\* C20 as stated: no step, the resethistory command included, deletes or
\* changes an entry of the member history: the number of entries of every
\* kind never decreases.
C20_HistoryAppendOnly ==
    [][\A k \in HistKeys : member_history'[k] >= member_history[k]]_vars

\* C20: the member history is append-only across joins, leaves, validation
\* passes and the startup population; only the resethistory command removes
\* entries, and it leaves exactly one CURRENT entry for every member who
\* holds the role.
C20_AppendOnlyExceptReset ==
    [][/\ \A k \in HistKeys :
            populate_member_history(member_history)[k] >= member_history[k]
       /\ (\E k \in HistKeys : member_history'[k] < member_history[k])
            => /\ ResetHistory
               /\ \A k \in HistKeys :
                    member_history'[k] =
                        IF /\ k[2] = "CURRENT" /\ k[3] /\ roleExists
                           /\ k[1] \in roster /\ k[1] \in resident
                        THEN 1 ELSE 0]_vars

\* C20 witness: the history holds entries written by the startup population,
\* by a join, by a validation pass and by a leave.
C20_Witness ==
    /\ \E m \in Members : member_history[<<m, "CURRENT", TRUE>>] > 0
    /\ \E m \in Members :
        /\ member_history[<<m, "join", FALSE>>] > 0
        /\ member_history[<<m, "got_resident", TRUE>>] > 0
        /\ member_history[<<m, "leave", TRUE>>] > 0

\* C11: in every reachable state a referral row with is_member_active = FALSE
\* has is_validated = FALSE.
C11_InactiveUnvalidated ==
    \A i \in Rows : ~referrals[i].is_member_active => ~referrals[i].is_validated

\* The rows of table ref whose invitee is m.
RowsOf(ref, m) == {i \in 1..Len(ref) : ref[i].invited_id = m}

\* The try block of join handler t ends in this step: with a commit, with a
\* rollback, or with the handler.
JoinTryEnds(t) ==
    /\ tasks[t].kind = "join"
    /\ tasks[t].pc \in {"start", "await_invites", "invites_ready", "await_send"}
    /\ tasks'[t].pc = "stored" \/ tasks'[t].kind = "none"

C21_CacheIsFetchedSnapshot ==
    [][\A t \in TaskIds :
        ( /\ tasks[t].kind = "join" /\ tasks[t].pc = "stored"
          /\ tasks'[t].pc = "validate" )
        => invite_cache' = tasks[t].invites_after]_vars

\* The rest of the window after the last run of the body for key k.
C22_WaitOf(k) == CooldownPer - (now - runs[k][Len(runs[k])])

\* C22: for myreferrals and leaderboard and each user, the body runs at most
\* once per 900 seconds; an invocation less than 900 seconds after a run is
\* answered with the cooldown embed giving the remaining wait, its body does
\* not run and no task is created for it.
C22_OneRunPerWindow ==
    [][\A c \in CooldownCommands, u \in Members :
        LET k == <<c, u>>
        IN /\ runs'[k] # runs[k]
                => \A i \in DOMAIN runs[k] : now - runs[k][i] >= CooldownPer
           /\ ( /\ Invoke(c, u, "dm", FALSE)
                /\ runs[k] # <<>>
                /\ now - runs[k][Len(runs[k])] < CooldownPer )
                => /\ rejection'.message = events + 1
                   /\ rejection'.cmd = c /\ rejection'.user = u
                   /\ rejection'.title = "Command on Cooldown"
                   /\ rejection'.minutes * 60 + rejection'.seconds = C22_WaitOf(k)
                   /\ rejection'.seconds < 60
                   /\ runs' = runs /\ tasks' = tasks /\ shown' = shown]_vars

\* A user whose myreferrals ran once has been told to wait 14m 59s.
C22_Witness ==
    /\ Len(runs[<<"myreferrals", 1>>]) = 1
    /\ rejection.cmd = "myreferrals" /\ rejection.user = 1
    /\ rejection.title = "Command on Cooldown"
    /\ rejection.minutes = 14 /\ rejection.seconds = 59

\* The invocations the checks are meant to refuse.
C23_Refused(cmd, place, admin) ==
    \/ cmd \in {"validate", "resethistory"} /\ ~admin
    \/ cmd = "validate" /\ place \notin {"commands", "leaderboard"}
    \/ cmd \in {"myreferrals", "leaderboard"} /\ place # "dm"

\* C23: a command message refused by a permission check, by the channel
\* allow-list or by the DM-only check is answered with a rejection embed and
\* leaves the tables, the open transaction, the audit log, the invite cache,
\* the tracked leaderboard message and the tasks as they were; so does
\* `validate` sent outside the commands and leaderboard channels.
C23_RejectionChangesNothing ==
    [][\A cmd \in Commands, u \in Members, place \in Places, admin \in BOOLEAN :
        (C23_Refused(cmd, place, admin) /\ Invoke(cmd, u, place, admin))
            => /\ rejection'.message = events + 1
               /\ rejection'.cmd = cmd /\ rejection'.user = u
               /\ rejection'.title \in {"Permission Error", "DM Only Command"}
               /\ UNCHANGED <<referrals, member_history, txn, audit_log,
                              invite_cache, last_leaderboard_message,
                              channel_messages, tasks, runs, cooldowns>>]_vars

\* `validate` has been refused with the permission embed while the table
\* holds a referral and a leaderboard message is live.
C23_Witness ==
    /\ rejection.cmd = "validate" /\ rejection.title = "Permission Error"
    /\ referrals # <<>>
    /\ channel_messages # {}

\* The store step of task t meets a locked database in this step.
C24_StoreFails(t) ==
    /\ Locked(t)
    /\ tasks'[t] # tasks[t]
    /\ \/ /\ tasks[t].kind = "join" /\ FirstToStart(t)
          /\ HasPreviousRecord(referrals, tasks[t].member)
       \/ tasks[t].kind = "join" /\ tasks[t].pc = "invites_ready"
       \/ tasks[t].kind = "leave" /\ FirstToStart(t)

\* C24: when the store step of a join or leave handler raises a storage
\* error (its first write finds the database locked), the tables stay as
\* they were, no transaction of the handler stays open, and the handler is
\* not ended by the error: it goes on towards the validation pass and the
\* publish, and so does the leave handler from the point after its failed
\* store step.
C24_StoreFailureIsolated ==
    [][\A t \in TaskIds :
        /\ ( /\ tasks[t].kind = "leave" /\ tasks[t].pc = "stored" /\ ~tasks[t].ok
             /\ tasks'[t] # tasks[t] )
            => tasks'[t].kind = "leave"
        /\ ( C24_StoreFails(t)
            => /\ referrals' = referrals /\ member_history' = member_history
               /\ txn'.owner # t
               /\ tasks'[t].kind = tasks[t].kind
               /\ tasks'[t].pc \in {"stored", "validate"}) ]_vars

\* Task t starts a recompute in this step.
C25_PassStarts(t) ==
    /\ tasks'[t] # tasks[t]
    /\ \/ tasks[t].pc = "validate" /\ roleExists
       \/ tasks[t].kind = "command" /\ tasks[t].pc = "await_status"

\* C25: when a full-table validation recompute starts (validate_referrals
\* with the role present, or the pass of the validate command), no other
\* handler is suspended with an uncommitted write.
C25_NoRecomputeOverOpenWrite ==
    [][\A t \in TaskIds :
        C25_PassStarts(t)
            => ~\E u \in TaskIds \ {t} :
                    /\ txn.owner = u
                    /\ tasks[u].pc \in {"await_invites", "await_send"}]_vars

\* The positions of the guides among the pinned messages.
C26_Guides(pinned) == {i \in DOMAIN pinned : pinned[i] = GuideTitle}

\* C26: after any number of ready events the leaderboard channel holds at
\* most one guide message pinned by the bot, and a ready event whose scan of
\* the pins finds the guide pinned does not send another.
C26_AtMostOneGuide ==
    [][/\ Cardinality(C26_Guides(pins')) <= 1
       /\ \A t \in TaskIds :
            ( /\ tasks[t].kind = "ready" /\ tasks[t].pc = "await_pins"
              /\ C26_Guides(pins) # {} )
                => tasks'[t].pc # "await_guide_send"]_vars

\* The audit event of a handler kind, and the step that ends task t after
\* the publish.
C27_EventType(kind) ==
    CASE kind = "join" -> "MEMBER_JOIN"
      [] kind = "leave" -> "MEMBER_LEAVE"
      [] kind = "command" -> "MANUAL_VALIDATION"

C27_RunsToEnd(t) ==
    /\ tasks[t].kind \in {"join", "leave", "command"}
    /\ tasks'[t] = Idle
    /\ \/ tasks[t].pc = "sleep" /\ ~boardChannel
       \/ /\ tasks[t].pc = "await_board_send"
          /\ last_leaderboard_message' # last_leaderboard_message

\* C27: the step that ends a join handler, a leave handler or a validate
\* command after the publish appends exactly one audit event of the
\* handler's type (MEMBER_JOIN, MEMBER_LEAVE, MANUAL_VALIDATION) with its
\* payload and severity, and no step changes or removes an earlier event.
C27_OneAuditEventPerHandler ==
    [][/\ Len(audit_log') >= Len(audit_log)
       /\ \A i \in DOMAIN audit_log : audit_log'[i] = audit_log[i]
       /\ \A t \in TaskIds :
            C27_RunsToEnd(t)
                => /\ Len(audit_log') = Len(audit_log) + 1
                   /\ audit_log'[Len(audit_log')].event_type
                        = C27_EventType(tasks[t].kind)
                   /\ audit_log'[Len(audit_log')].severity
                        \in {"INFO", "IMPORTANT", "ADMIN"}]_vars

\* The pass of the command run by task t commits in this step.
C28_CommandPassRuns(t) ==
    /\ tasks[t].kind = "command" /\ tasks[t].pc = "await_status"
    /\ tasks'[t].pc = "await_report"

\* C28: the pass of the admin `validate` command leaves referrals and
\* member_history as validate_referrals would leave them from the same
\* tables and roster.
C28_CommandEqualsValidateReferrals ==
    [][\A t \in TaskIds :
        C28_CommandPassRuns(t)
            => LET db == validate_referrals([referrals |-> referrals,
                                             member_history |-> member_history])
               IN /\ referrals' = db.referrals
                  /\ member_history' = db.member_history]_vars

\* Task t runs a pass in this step; member m is in a validated pair of ref.
C29_PassRuns(t) == tasks[t].pc = "validate" /\ tasks'[t].pc = "validated"

C29_InValidatedPair(ref, m) ==
    \E i \in 1..Len(ref) :
        /\ ref[i].is_validated
        /\ m \in {ref[i].inviter_id, ref[i].invited_id}

\* C29: a validation pass changes member_history only by appending
\* 'got_resident' entries, at most one per member and only for a member of
\* a pair the pass validated who had no entry with the role held; no member
\* ever has more than one 'got_resident' entry.
C29_OneGotResidentPerMember ==
    [][/\ \A m \in Members : member_history'[<<m, "got_resident", TRUE>>] <= 1
       /\ \A t \in TaskIds :
            C29_PassRuns(t)
                => \A k \in DOMAIN member_history :
                    \/ member_history'[k] = member_history[k]
                    \/ /\ k[2] = "got_resident" /\ k[3] = TRUE
                       /\ member_history'[k] = member_history[k] + 1
                       /\ HadResidentCount(member_history, k[1]) = 0
                       /\ C29_InValidatedPair(referrals', k[1])]_vars

\* A pass has run while member 2, validated with its inviter, already had
\* its one 'got_resident' entry and member 1 its CURRENT entry.
C29_Witness ==
    /\ member_history[<<2, "got_resident", TRUE>>] = 1
    /\ member_history[<<1, "CURRENT", TRUE>>] = 1
    /\ member_history[<<1, "got_resident", TRUE>>] = 0
    /\ C29_InValidatedPair(referrals, 2)
    /\ \E t \in TaskIds : tasks[t].pc = "validated" /\ tasks[t].kind = "periodic"
    /\ events = 1

\* The store step of join task t commits in this step.
C30_StoreCommits(t) ==
    /\ tasks[t].kind = "join"
    /\ tasks[t].pc \in {"invites_ready", "await_send"}
    /\ tasks'[t].pc = "stored" /\ tasks'[t].ok

\* C30: when two members join through two different invites and the second
\* join handler starts only after the first has written the invite cache,
\* the store step of each join inserts a row naming the invite that member
\* came through and its owner.  (Member m comes through code 3 - m.)
C30_EachJoinToItsInvite ==
    [][\A t \in TaskIds :
        C30_StoreCommits(t)
            => \E i \in 1..Len(referrals') :
                /\ referrals'[i].invited_id = tasks[t].member
                /\ referrals'[i].invite_code = 3 - tasks[t].member
                /\ referrals'[i].inviter_id = InviteOwner(3 - tasks[t].member)]_vars

\* The store step of join task t adds a row to the table in this step.
C31_RowCreated(t) ==
    /\ tasks[t].kind = "join" /\ tasks[t].pc = "invites_ready"
    /\ Len(IF txn'.owner = t THEN txn'.referrals ELSE referrals')
            > Len(IF txn.owner = t THEN txn.referrals ELSE referrals)

\* C31: when a join creates a referral row, the attributed invite has a use
\* count in the refreshed snapshot strictly above its count in the cache, an
\* invite absent from the cache counting as 0; a new invite nobody used is
\* never the attributed one.
C31_AttributedInviteWasUsed ==
    [][\A t \in TaskIds :
        C31_RowCreated(t)
            => /\ tasks'[t].invite_used \in tasks[t].invites_after
               /\ tasks'[t].invite_used.uses
                    > CachedUses(invite_cache, tasks'[t].invite_used.code)]_vars

\* The store step of join task t fails in this step, its snapshot fetched.
C32_StoreFailsAfterFetch(t) ==
    /\ tasks[t].kind = "join"
    /\ tasks[t].pc \in {"invites_ready", "await_send"}
    /\ tasks'[t].pc = "stored" /\ ~tasks'[t].ok

\* C32: when the store step of a join handler fails after the snapshot has
\* been fetched, the rollback leaves referrals and member_history as they
\* were and no transaction of the handler open, and the handler's cache
\* update still replaces the invite cache by the fetched snapshot.
C32_RollbackButCacheReplaced ==
    [][\A t \in TaskIds :
        /\ C32_StoreFailsAfterFetch(t)
            => /\ referrals' = referrals /\ member_history' = member_history
               /\ txn'.owner # t
        /\ ( /\ tasks[t].kind = "join" /\ tasks[t].pc = "stored" /\ ~tasks[t].ok
             /\ tasks'[t].pc = "validate" )
            => /\ invite_cache' = tasks[t].invites_after
               /\ UNCHANGED <<referrals, member_history>>]_vars

\* The publish of task t sends its message in this step and leaves no task
\* running or waiting.
C33_LastPublishEnds(t) ==
    /\ tasks[t].pc = "await_board_send"
    /\ last_leaderboard_message' # last_leaderboard_message
    /\ \A u \in TaskIds : tasks'[u] = Idle

\* C33: when the last of the overlapping handlers completes its publish and
\* nothing is pending, the tracked leaderboard message shows the ranking of
\* the committed referral rows as they are then.
C33_BoardShowsFinalRows ==
    [][\A t \in TaskIds :
        C33_LastPublishEnds(t)
            => /\ last_leaderboard_message' \in channel_messages'
               /\ displayed' = Leaderboard(referrals')]_vars

\* The passes of auto_update_loop that are between their first and last step.
PeriodicPasses == {t \in TaskIds : tasks[t].kind = "periodic"}

\* C34: after any number of client-ready events at most one auto_update_loop
\* task is running, so that at most one periodic validate-publish pass is
\* under way at a time.
C34_AtMostOneLoopTask ==
    /\ loops <= 1
    /\ Cardinality(PeriodicPasses) <= 1

\* The columns of a referral row that no UPDATE of the program names.
RowIdentity(row) == <<row.inviter_id, row.invited_id, row.invite_code>>

\* This step commits the INSERT of join handler t: the member has no row in
\* the table and the attribution was not empty.
C35_JoinInserts(t) ==
    /\ tasks[t].kind = "join"
    /\ tasks[t].pc \in {"invites_ready", "await_send"}
    /\ ~HasPreviousRecord(referrals, tasks[t].member)
    /\ tasks'[t].invite_used # NoInvite

\* C35: referral rows are never deleted and their identity fields never
\* change: in every step the number of rows does not decrease, it grows by at
\* most one and only when a join of a member without an existing row, with a
\* non-empty attribution, stores its row, and every row keeps its inviter_id,
\* invited_id and invite_code.
C35_RowsOnlyAddedByFirstJoin ==
    [][/\ Len(referrals') >= Len(referrals)
       /\ Len(referrals') <= Len(referrals) + 1
       /\ \A i \in 1..Len(referrals) :
            RowIdentity(referrals'[i]) = RowIdentity(referrals[i])
       /\ Len(referrals') = Len(referrals) + 1 =>
            \E t \in TaskIds : C35_JoinInserts(t)]_vars

\* The number of rows a paginated answer is taken to list.
MaxItems == 11

\* The two paginators followed on their own, for answers of 1..MaxItems
\* rows: presses of both buttons, reactions of both kinds, and the timeouts.
PagesNext ==
    \/ \E n \in 1..MaxItems : ShowMyReferrals(n)
    \/ previous_page
    \/ next_page
    \/ on_timeout
    \/ \E n \in 1..MaxItems : InviteHistory(n)
    \/ \E emoji \in {"next", "previous"} : ReactionAdd(emoji)
    \/ ReactionTimeout

SpecPages == Init /\ [][PagesNext]_vars

\* C36: under any sequence of next and previous events the current page of
\* both paginators stays within 0..total_pages-1, and in the live myreferrals
\* view Previous is disabled exactly on page 0 and Next exactly on the last
\* page, also when there is a single page.
C36_PagesInRangeButtonsAtEnds ==
    /\ invite_list.total_pages > 0 =>
            invite_list.current_page \in 0..(invite_list.total_pages - 1)
    /\ view.open =>
        /\ view.current_page \in 0..(view.total_pages - 1)
        /\ view.previous_disabled <=> (view.current_page = 0)
        /\ view.next_disabled <=> (view.current_page = view.total_pages - 1)

====
